---- MODULE Spec2Model ----
(***************************************************************************)
(* Staged extraction pipeline of the jet-hadron correlations analysis:     *)
(* CorrelationsManager drives one Correlations object per                  *)
(* (jet-pt, track-pt, orientation) bin through projection, fitting,        *)
(* subtraction and extraction, each stage either computing and persisting  *)
(* its result or loading a previously persisted one.                       *)
(***************************************************************************)
EXTENDS Integers, Sequences, FiniteSets, TLC

(***************************************************************************)
(* Bounds.                                                                 *)
(***************************************************************************)
\* Number of (jet-pt, track-pt) bin-groups built from the configuration.
NumGroups == 2
\* Number of selected reaction-plane orientations; the first is inclusive.
NumOrient == 2
\* Number of manager constructions (program runs) over the same output files.
MaxRuns == 2
\* analysis.run_projections() is called directly only on bins 1..MaxDirectBin.
MaxDirectBin == 1

NumBins == NumGroups * NumOrient
Bins == 1..NumBins
Groups == 1..NumGroups

\* Position of a bin in the cross-product of the selected iterables:
\* the reaction-plane orientation varies fastest.
GroupOf(b) == ((b - 1) \div NumOrient) + 1
OrientOf(b) == ((b - 1) % NumOrient) + 1
BinsOf(g) == {b \in Bins : GroupOf(b) = g}
IsInclusive(b) == OrientOf(b) = 1

(***************************************************************************)
(* Values.                                                                 *)
(***************************************************************************)
\* Observable.hist before any histogram is attached.
None == -1000
\* Initial value and error of PedestalFitResult and ExtractedObservable.
Placeholder == -1

ErrorNames == {"none", "ValueError", "RuntimeError", "AttributeError",
               "FileNotFoundError", "KeyError"}

\* The input THnSparse content of a bin, as seen through the projectors.
InputData(b) == 100 * b
\* Trigger spectrum projected by the sparse projectors.
TriggerSpectrum(b) == InputData(b) + 50

\* determine_number_of_triggers: integral of the trigger spectrum over the jet-pt range.
determine_number_of_triggers(hist) == hist \div 10

\* 2D signal correlation: raw (scaled by 1/n_trig) divided by the normalized mixed event.
Create2DCorrelations(b) ==
    [raw |-> InputData(b) + 1, mixed_event |-> InputData(b) + 2, signal |-> InputData(b) + 3]

\* 2D -> 1D projections of the signal correlation, scaled by bin width.
Create1DCorrelations(h2d) ==
    [dphi_signal_dominated     |-> h2d.signal + 10,
     dphi_background_dominated |-> h2d.signal + 20,
     deta_near_side            |-> h2d.signal + 30,
     deta_away_side            |-> h2d.signal + 40]

NoHists2D == [raw |-> None, mixed_event |-> None, signal |-> None]
NoHists1D == [dphi_signal_dominated |-> None, dphi_background_dominated |-> None,
              deta_near_side |-> None, deta_away_side |-> None]
NoHistsDeltaEta == [near_side |-> None, away_side |-> None]

PedestalFitResult(value, error) == [value |-> value, error |-> error]
InitialDeltaEtaFitObjects ==
    [near_side |-> PedestalFitResult(Placeholder, Placeholder),
     away_side |-> PedestalFitResult(Placeholder, Placeholder)]
InitialYields == [near_side |-> [value |-> Placeholder, error |-> Placeholder],
                  away_side |-> [value |-> Placeholder, error |-> Placeholder]]
\* ExtractedWidth objects before any Gaussian fit: no fit_result.
InitialWidths == [near_side |-> None, away_side |-> None]

\* fit_pedestal_to_delta_eta_background_dominated_region on one delta eta hist.
FitPedestal(h) == PedestalFitResult(h % 7, 1)

(***************************************************************************)
(* Files: a ROOT file and a YAML file per bin, a fit result file per       *)
(* bin-group.  A file maps record names to values.                         *)
(***************************************************************************)
NoFile == [exists |-> FALSE, recs |-> <<>>]
Keys(f) == DOMAIN f.recs
Put(recs, k, v) == [x \in (DOMAIN recs) \cup {k} |-> IF x = k THEN v ELSE recs[x]]

VARIABLES
    run,          \* index of the current manager construction
    opts,         \* processing options of the configuration
    an,           \* bin -> in-memory state of its Correlations object
    fit_objects,  \* CorrelationsManager.fit_objects, in insertion order
    rootFile,     \* bin -> ROOT output file
    yamlFile,     \* bin -> YAML output file
    rpfFile,      \* group -> RPFitResult_<identifier>.yaml
    entry,        \* the manager call in progress, or the last one made
    todo,         \* stages the call in progress still has to run
    pos,          \* loop position inside the current stage
    hi,           \* last loop position of the current stage
    err,          \* exception raised by the last call, or "none"
    done,         \* bin -> stages that have completed for the bin since construction
    yfile,        \* a YAML record file shared by concurrent writers
    writer,       \* writer -> position and local data of its persist cycle
    fn,           \* the function applied last
    arg,          \* the arguments it was applied to
    out           \* the value it returned

\* The variables of concurrent writers and of function applications, which
\* the pipeline leaves alone.
writerVars == <<yfile, writer>>
functionVars == <<fn, arg, out>>
aux == <<writerVars, functionVars>>
pipelineVars == <<run, opts, an, fit_objects, rootFile, yamlFile, rpfFile, entry, todo, pos, hi, err, done>>

vars == <<run, opts, an, fit_objects, rootFile, yamlFile, rpfFile, entry, todo, pos, hi, err, done,
          yfile, writer, fn, arg, out>>

OptionNames == {"generate2DCorrelations", "generate1DCorrelations", "fit_correlations",
                "subtract_correlations", "extract_yields", "extract_widths"}
Config(g2, g1, f, s, y, w) ==
    [generate2DCorrelations |-> g2, generate1DCorrelations |-> g1, fit_correlations |-> f,
     subtract_correlations |-> s, extract_yields |-> y, extract_widths |-> w]
\* The configurations explored: everything is computed from some stage on and
\* loaded before it, or only one of the projections is computed, or
\* everything up to the fits is computed and the rest is loaded.
Options ==
    {Config(TRUE, TRUE, TRUE, TRUE, TRUE, TRUE),
     Config(FALSE, TRUE, TRUE, TRUE, TRUE, TRUE),
     Config(FALSE, FALSE, TRUE, TRUE, TRUE, TRUE),
     Config(FALSE, FALSE, FALSE, TRUE, TRUE, TRUE),
     Config(FALSE, FALSE, FALSE, FALSE, TRUE, TRUE),
     Config(FALSE, FALSE, FALSE, FALSE, FALSE, TRUE),
     Config(FALSE, FALSE, FALSE, FALSE, FALSE, FALSE),
     Config(TRUE, FALSE, FALSE, FALSE, FALSE, FALSE),
     Config(FALSE, TRUE, FALSE, FALSE, FALSE, FALSE),
     Config(TRUE, TRUE, TRUE, FALSE, FALSE, FALSE)}

\* Correlations.__init__
NewCorrelations(o) ==
    [setup |-> FALSE,
     ran_projections |-> FALSE,
     ran_fitting |-> FALSE,
     ran_post_fit_processing |-> FALSE,
     generate1DCorrelations |-> o["generate1DCorrelations"],
     fit1DCorrelations |-> FALSE,
     number_of_triggers_hist |-> None,
     number_of_triggers |-> 0,
     hists_2d |-> NoHists2D,
     hists_1d |-> NoHists1D,
     fit_objects_delta_eta |-> InitialDeltaEtaFitObjects,
     fit_object |-> None,
     dphi_subtracted |-> None,
     deta_subtracted |-> NoHistsDeltaEta,
     yields_delta_phi |-> InitialYields,
     yields_delta_eta |-> InitialYields,
     widths_delta_phi |-> InitialWidths,
     widths_delta_eta |-> InitialWidths]

\* No writer is active.
NoWriters == yfile = <<>> /\ writer = <<>>

\* No function has been applied.
NoFunction == fn = "none" /\ arg = <<>> /\ out = <<>>

\* The state after CorrelationsManager.__init__ in the first program run.
InitPipeline ==
    /\ run = 1
    /\ opts \in Options
    /\ an = [b \in Bins |-> NewCorrelations(opts)]
    /\ fit_objects = <<>>
    /\ rootFile = [b \in Bins |-> NoFile]
    /\ yamlFile = [b \in Bins |-> NoFile]
    /\ rpfFile = [g \in Groups |-> NoFile]
    /\ entry = "none"
    /\ todo = <<>>
    /\ pos = 0
    /\ hi = 0
    /\ err = "none"
    /\ done = [b \in Bins |-> {}]

Init == InitPipeline /\ NoWriters /\ NoFunction

\* No call is in progress.
Idle == todo = <<>>

\* CorrelationsManager.__init__ in a new program run: the output files of
\* earlier runs are still on disk.
Construct ==
    /\ Idle
    /\ run < MaxRuns
    /\ run' = run + 1
    /\ opts' \in Options
    /\ an' = [b \in Bins |-> NewCorrelations(opts')]
    /\ fit_objects' = <<>>
    /\ err' = "none"
    /\ done' = [b \in Bins |-> {}]
    /\ UNCHANGED <<aux, rootFile, yamlFile, rpfFile, entry, todo, pos, hi>>

(***************************************************************************)
(* Call control: a manager call runs its stages in order, each stage       *)
(* looping over the bins (or bin-groups); an exception ends the call.      *)
(***************************************************************************)
RunStages == <<"setup", "run_projections", "_fit_delta_eta_correlations", "_reaction_plane_fit",
               "_subtract_reaction_plane_fits", "_subtract_delta_eta_fits",
               "extract_yields", "extract_widths">>
StageNames == {RunStages[i] : i \in DOMAIN RunStages}
EntryNames == {"run", "fit", "subtract_fits"} \cup (StageNames \ {"run_projections"})

\* run() with the subtraction called before the fit.
StagesOfMut(e) ==
    CASE e = "run" -> <<"setup", "run_projections",
                        "_subtract_reaction_plane_fits", "_subtract_delta_eta_fits",
                        "_fit_delta_eta_correlations", "_reaction_plane_fit",
                        "extract_yields", "extract_widths">>
      [] e = "fit" -> <<"_fit_delta_eta_correlations", "_reaction_plane_fit">>
      [] e = "subtract_fits" -> <<"_subtract_reaction_plane_fits", "_subtract_delta_eta_fits">>
      [] OTHER -> <<e>>

\* The stage methods each manager method calls, in call order.
StagesOf(e) ==
    CASE e = "run" -> RunStages
      [] e = "fit" -> <<"_fit_delta_eta_correlations", "_reaction_plane_fit">>
      [] e = "subtract_fits" -> <<"_subtract_reaction_plane_fits", "_subtract_delta_eta_fits">>
      [] OTHER -> <<e>>

\* Number of iterations of a stage's loop: one per bin, but one per
\* bin-group for the reaction plane fit.
LoopLength(s) == IF s = "_reaction_plane_fit" THEN NumGroups ELSE NumBins

Min(x, y) == IF x <= y THEN x ELSE y

\* _subtract_reaction_plane_fits iterates over zip(bin-groups, self.fit_objects).
ZipLimit(s, fo) ==
    IF s = "_subtract_reaction_plane_fits" THEN Min(hi, Len(fo) * NumOrient) ELSE hi

InStage(s) == todo # <<>> /\ Head(todo) = s /\ pos <= ZipLimit(s, fit_objects)

Raise(e) == todo' = <<>> /\ pos' = 0 /\ hi' = 0 /\ err' = e /\ UNCHANGED entry
Continue == pos' = pos + 1 /\ UNCHANGED <<entry, todo, hi, err>>
Finish(e) == IF e = "none" THEN Continue ELSE Raise(e)

\* A manager method is called (manager.run(), manager.fit(), ...).
Call(e) ==
    /\ Idle
    /\ entry' = e
    /\ todo' = StagesOf(e)
    /\ pos' = 1
    /\ hi' = LoopLength(Head(StagesOf(e)))
    /\ err' = "none"
    /\ UNCHANGED <<aux, run, opts, an, fit_objects, rootFile, yamlFile, rpfFile, done>>

\* analysis.run_projections() is called on one bin.
CallRunProjections(b) ==
    /\ Idle
    /\ entry' = "analysis.run_projections"
    /\ todo' = <<"run_projections">>
    /\ pos' = b
    /\ hi' = b
    /\ err' = "none"
    /\ UNCHANGED <<aux, run, opts, an, fit_objects, rootFile, yamlFile, rpfFile, done>>

\* The loop of the current stage is exhausted: the next stage starts, or the call returns.
EndStage ==
    /\ todo # <<>>
    /\ pos > ZipLimit(Head(todo), fit_objects)
    /\ todo' = Tail(todo)
    /\ IF Tail(todo) = <<>>
          THEN pos' = 0 /\ hi' = 0
          ELSE pos' = 1 /\ hi' = LoopLength(Head(Tail(todo)))
    /\ UNCHANGED <<aux, run, opts, an, fit_objects, rootFile, yamlFile, rpfFile, entry, err, done>>

(***************************************************************************)
(* Persistence helpers.                                                    *)
(***************************************************************************)
\* _write_hists_to_root_file / _write_hists_to_yaml: read the existing records,
\* add every valid (not None) histogram under its name, rewrite.
WriteHists(f, hs) ==
    LET valid == {k \in DOMAIN hs : hs[k] # None}
    IN [exists |-> TRUE,
        recs |-> [k \in Keys(f) \cup valid |-> IF k \in valid THEN hs[k] ELSE f.recs[k]]]

\* A write that opens the file with "w": what the file held is dropped.
WriteValueMut(f, k, v) == [exists |-> TRUE, recs |-> Put(<<>>, k, v)]

\* write_delta_eta_fit_results / _write_extracted_values_to_YAML
WriteValue(f, k, v) == [exists |-> TRUE, recs |-> Put(f.recs, k, v)]

\* _init_hists_from_root_file / _init_hists_from_yaml_file: a record missing
\* from the file leaves the observable's hist None.
InitHists(f, names) == [k \in names |-> IF k \in Keys(f) THEN f.recs[k] ELSE None]

Result(e, a, f) == [err |-> e, a |-> a, f |-> f]

Mark(b, stages) == done' = [done EXCEPT ![b] = @ \cup stages]

(***************************************************************************)
(* Setup.                                                                  *)
(***************************************************************************)
\* CorrelationsManager.setup, one iteration: analysis.setup(input_hists)
StepSetup ==
    /\ InStage("setup")
    /\ an' = [an EXCEPT ![pos].setup = TRUE]
    /\ Mark(pos, {"setup"})
    /\ Continue
    /\ UNCHANGED <<aux, run, opts, fit_objects, rootFile, yamlFile, rpfFile>>

(***************************************************************************)
(* Projections.                                                            *)
(***************************************************************************)
\* Whether _run_2d_projections creates the 2D correlations instead of loading them.
Compute2D(o, f) == o["generate2DCorrelations"] \/ ~f.exists

\* The compute branch without forcing the 1D projections.
Created2DMut(a, b) ==
    [a EXCEPT !.number_of_triggers_hist = TriggerSpectrum(b),
              !.number_of_triggers = determine_number_of_triggers(TriggerSpectrum(b)),
              !.hists_2d = Create2DCorrelations(b)]

\* The compute branch of _run_2d_projections: the 1D projections that follow are forced.
Created2D(a, b) ==
    [a EXCEPT !.number_of_triggers_hist = TriggerSpectrum(b),
              !.number_of_triggers = determine_number_of_triggers(TriggerSpectrum(b)),
              !.hists_2d = Create2DCorrelations(b),
              !.generate1DCorrelations = TRUE]

\* Correlations._run_2d_projections
run_2d_projections(a, f, b) ==
    IF Compute2D(opts, f)
    THEN IF ~a.setup
         \* no projector was set up: the trigger spectrum is still None
         THEN Result("AttributeError", a, f)
         ELSE LET a1 == Created2D(a, b)
              IN Result("none", a1,
                        WriteHists(WriteHists(f, a1.hists_2d),
                                   [jetH_number_of_triggers |-> a1.number_of_triggers_hist]))
    ELSE Result("none",
                [a EXCEPT !.hists_2d = InitHists(f, DOMAIN NoHists2D),
                          !.number_of_triggers_hist = InitHists(f, {"jetH_number_of_triggers"}).jetH_number_of_triggers],
                f)

\* Correlations._run_1d_projections
run_1d_projections(a, f) ==
    IF a.generate1DCorrelations
    THEN IF a.hists_2d.signal = None
         THEN Result("AttributeError", a, f)
         ELSE LET a1 == [a EXCEPT !.hists_1d = Create1DCorrelations(a.hists_2d),
                                  !.fit1DCorrelations = TRUE]
              IN Result("none", a1, WriteHists(f, a1.hists_1d))
    ELSE IF ~f.exists
         THEN Result("FileNotFoundError", a, f)
         ELSE Result("none", [a EXCEPT !.hists_1d = InitHists(f, DOMAIN NoHists1D)], f)

\* Correlations.run_projections
run_projections(a, f, b) ==
    LET r2 == run_2d_projections(a, f, b)
    IN IF r2.err # "none" THEN r2
       ELSE LET r1 == run_1d_projections(r2.a, r2.f)
            IN IF r1.err # "none" THEN r1
               ELSE Result("none", [r1.a EXCEPT !.ran_projections = TRUE], r1.f)

\* The projection loop of CorrelationsManager.run, one iteration
\* (or a direct call of analysis.run_projections()).
StepRunProjections ==
    /\ InStage("run_projections")
    /\ LET r == run_projections(an[pos], rootFile[pos], pos)
           r2 == run_2d_projections(an[pos], rootFile[pos], pos)
       IN /\ an' = [an EXCEPT ![pos] = r.a]
          /\ rootFile' = [rootFile EXCEPT ![pos] = r.f]
          /\ Mark(pos, (IF r2.err = "none" THEN {"project_2d"} ELSE {})
                         \cup (IF r.err = "none" THEN {"project_1d"} ELSE {}))
          /\ Finish(r.err)
    /\ UNCHANGED <<aux, run, opts, fit_objects, yamlFile, rpfFile>>

(***************************************************************************)
(* Fitting.                                                                *)
(***************************************************************************)
\* Correlations.fit_delta_eta_correlations followed by write_delta_eta_fit_results,
\* or init_delta_eta_fit_information.
fit_delta_eta(a, y) ==
    IF opts["fit_correlations"]
    THEN IF a.hists_1d.deta_near_side = None
         THEN Result("AttributeError", a, y)
         ELSE LET a1 == [a EXCEPT !.fit_objects_delta_eta.near_side = FitPedestal(a.hists_1d.deta_near_side)]
              IN IF a.hists_1d.deta_away_side = None
                 THEN Result("AttributeError", a1, y)
                 ELSE LET a2 == [a1 EXCEPT !.fit_objects_delta_eta.away_side = FitPedestal(a.hists_1d.deta_away_side)]
                      IN Result("none", a2, WriteValue(y, "fit_objects_delta_eta", a2.fit_objects_delta_eta))
    ELSE IF ~y.exists
         THEN Result("FileNotFoundError", a, y)
         ELSE IF "fit_objects_delta_eta" \notin Keys(y)
              THEN Result("KeyError", a, y)
              ELSE Result("none", [a EXCEPT !.fit_objects_delta_eta = y.recs["fit_objects_delta_eta"]], y)

\* CorrelationsManager._fit_delta_eta_correlations, one iteration
StepFitDeltaEta ==
    /\ InStage("_fit_delta_eta_correlations")
    /\ LET r == fit_delta_eta(an[pos], yamlFile[pos])
       IN /\ an' = [an EXCEPT ![pos] = r.a]
          /\ yamlFile' = [yamlFile EXCEPT ![pos] = r.f]
          /\ Mark(pos, IF r.err = "none" THEN {"_fit_delta_eta_correlations"} ELSE {})
          /\ Finish(r.err)
    /\ UNCHANGED <<aux, run, opts, fit_objects, rootFile, rpfFile>>

\* The sanity check applied to the inclusive analysis only.
ProjectionsMissingMut(a, g) == \E b \in BinsOf(g) : IsInclusive(b) /\ a[b].ran_projections = FALSE

\* The sanity check at the head of the reaction plane fit of a bin-group.
ProjectionsMissing(a, g) == \E b \in BinsOf(g) : a[b].ran_projections = FALSE

\* The histogram a bin contributes to the joint fit: signal dominated for
\* the inclusive orientation, background dominated for the others.
FitInput(a, b) ==
    IF IsInclusive(b) THEN a[b].hists_1d.dphi_signal_dominated
    ELSE a[b].hists_1d.dphi_background_dominated

RECURSIVE SumInputs(_, _)
SumInputs(a, bs) ==
    IF bs = {} THEN 0
    ELSE LET b == CHOOSE x \in bs : TRUE IN FitInput(a, b) + SumInputs(a, bs \ {b})

\* The fit result of the simultaneous fit over all orientations of a bin-group.
JointFit(a, g) == SumInputs(a, BinsOf(g)) % 11

\* The component of the joint fit that applies to a bin.
FitComponent(res, b) == 10 * res + OrientOf(b)

\* self.fit_objects[fit_key_index] = fit_obj
StoreFit(fo, g, res) ==
    IF \E i \in DOMAIN fo : fo[i].key = g
    THEN [i \in DOMAIN fo |-> IF fo[i].key = g THEN [key |-> g, result |-> res] ELSE fo[i]]
    ELSE Append(fo, [key |-> g, result |-> res])

\* The tail of one iteration of _reaction_plane_fit: the result is stored in
\* the manager and in every analysis of the group, which are marked as fitted.
FitStored(res) ==
    /\ fit_objects' = StoreFit(fit_objects, pos, res)
    /\ an' = [b \in Bins |-> IF GroupOf(b) = pos
                             THEN [an[b] EXCEPT !.fit_object = FitComponent(res, b),
                                                !.ran_fitting = TRUE]
                             ELSE an[b]]
    /\ done' = [b \in Bins |-> IF GroupOf(b) = pos
                               THEN done[b] \cup {"_reaction_plane_fit"} ELSE done[b]]
    /\ Continue

\* A failed fit that clears the fitted status of the group.
FitNotStoredMut(e) ==
    /\ Raise(e)
    /\ an' = [b \in Bins |-> IF GroupOf(b) = pos THEN [an[b] EXCEPT !.ran_fitting = FALSE] ELSE an[b]]
    /\ UNCHANGED <<fit_objects, rpfFile, done>>

FitNotStored(e) ==
    /\ Raise(e)
    /\ UNCHANGED <<an, fit_objects, rpfFile, done>>

\* CorrelationsManager._reaction_plane_fit, one iteration (one bin-group)
StepReactionPlaneFit ==
    /\ InStage("_reaction_plane_fit")
    /\ IF ProjectionsMissing(an, pos)
       THEN FitNotStored("ValueError")
       ELSE IF opts["fit_correlations"]
            THEN IF \E b \in BinsOf(pos) : FitInput(an, b) = None
                 THEN FitNotStored("AttributeError")
                 ELSE \E fit_success \in BOOLEAN :
                        IF fit_success
                        THEN /\ rpfFile' = [rpfFile EXCEPT ![pos] =
                                              WriteValue(NoFile, "fit_result", JointFit(an, pos))]
                             /\ FitStored(JointFit(an, pos))
                        ELSE FitNotStored("RuntimeError")
            ELSE IF ~rpfFile[pos].exists
                 THEN FitNotStored("FileNotFoundError")
                 ELSE /\ FitStored(rpfFile[pos].recs["fit_result"])
                      /\ UNCHANGED rpfFile
    /\ UNCHANGED <<aux, run, opts, rootFile, yamlFile>>

(***************************************************************************)
(* Subtraction.                                                            *)
(***************************************************************************)
\* fit_object.evaluate_background at the points of the signal dominated hist.
evaluate_background(component) == component % 13

\* Correlations.subtract_background_fit_function_from_signal_dominated
SubtractedDeltaPhi(a) == a.hists_1d.dphi_signal_dominated - evaluate_background(a.fit_object)

\* The body of the inner loop of _subtract_reaction_plane_fits for one analysis.
subtract_reaction_plane_fit(a, y) ==
    IF ~a.ran_fitting
    THEN Result("RuntimeError", a, y)
    ELSE IF opts["subtract_correlations"]
         THEN IF a.hists_1d.dphi_signal_dominated = None \/ a.fit_object = None
              THEN Result("AttributeError", a, y)
              ELSE LET a1 == [a EXCEPT !.dphi_subtracted = SubtractedDeltaPhi(a)]
                   IN Result("none", a1,
                             WriteHists(y, [dphi_signal_dominated_subtracted |-> a1.dphi_subtracted]))
         ELSE IF ~y.exists
              THEN Result("FileNotFoundError", a, y)
              ELSE Result("none",
                          [a EXCEPT !.dphi_subtracted =
                              InitHists(y, {"dphi_signal_dominated_subtracted"}).dphi_signal_dominated_subtracted],
                          y)

\* CorrelationsManager._subtract_reaction_plane_fits, one analysis of one
\* bin-group; after the last analysis of the group, every analysis of the group
\* is marked as post-fit processed.
StepSubtractReactionPlaneFits ==
    /\ InStage("_subtract_reaction_plane_fits")
    /\ LET r == subtract_reaction_plane_fit(an[pos], yamlFile[pos])
           groupDone == r.err = "none" /\ OrientOf(pos) = NumOrient
       IN /\ an' = [b \in Bins |->
                      LET a == IF b = pos THEN r.a ELSE an[b]
                      IN IF groupDone /\ GroupOf(b) = GroupOf(pos)
                         THEN [a EXCEPT !.ran_post_fit_processing = TRUE] ELSE a]
          /\ yamlFile' = [yamlFile EXCEPT ![pos] = r.f]
          /\ Mark(pos, IF r.err = "none" THEN {"_subtract_reaction_plane_fits"} ELSE {})
          /\ Finish(r.err)
    /\ UNCHANGED <<aux, run, opts, fit_objects, rootFile, rpfFile>>

\* A conversion that accepts a missing histogram.
CanSubtractMut(h) == TRUE

\* Whether the delta eta histogram can be converted for the subtraction
\* (Histogram1D.from_existing_hist fails on None).
CanSubtract(h) == h # None

\* Correlations.subtract_delta_eta_correlations: the near-side pedestal is
\* subtracted from both the near-side and the away-side hist.
subtract_delta_eta_correlations(a) ==
    LET pedestal == a.fit_objects_delta_eta.near_side
    IN IF ~CanSubtract(a.hists_1d.deta_near_side)
       THEN Result("AttributeError", a, FALSE)
       ELSE LET a1 == [a EXCEPT !.deta_subtracted.near_side = a.hists_1d.deta_near_side - pedestal.value]
            IN IF ~CanSubtract(a.hists_1d.deta_away_side)
               THEN Result("AttributeError", a1, FALSE)
               ELSE Result("none",
                           [a1 EXCEPT !.deta_subtracted.away_side = a.hists_1d.deta_away_side - pedestal.value],
                           TRUE)

\* The body of the loop of _subtract_delta_eta_fits for one analysis.
subtract_delta_eta_fit(a, y) ==
    IF opts["subtract_correlations"]
    THEN LET r == subtract_delta_eta_correlations(a)
         IN IF r.err # "none" THEN Result(r.err, r.a, y)
            ELSE Result("none", r.a,
                        WriteHists(y, [deta_near_side_subtracted |-> r.a.deta_subtracted.near_side,
                                       deta_away_side_subtracted |-> r.a.deta_subtracted.away_side]))
    ELSE IF ~y.exists
         THEN Result("FileNotFoundError", a, y)
         ELSE LET h == InitHists(y, {"deta_near_side_subtracted", "deta_away_side_subtracted"})
              IN Result("none",
                        [a EXCEPT !.deta_subtracted = [near_side |-> h.deta_near_side_subtracted,
                                                       away_side |-> h.deta_away_side_subtracted]],
                        y)

\* CorrelationsManager._subtract_delta_eta_fits, one iteration
StepSubtractDeltaEtaFits ==
    /\ InStage("_subtract_delta_eta_fits")
    /\ LET r == subtract_delta_eta_fit(an[pos], yamlFile[pos])
       IN /\ an' = [an EXCEPT ![pos] = r.a]
          /\ yamlFile' = [yamlFile EXCEPT ![pos] = r.f]
          /\ Mark(pos, IF r.err = "none" THEN {"_subtract_delta_eta_fits"} ELSE {})
          /\ Finish(r.err)
    /\ UNCHANGED <<aux, run, opts, fit_objects, rootFile, rpfFile>>

(***************************************************************************)
(* Extraction.                                                             *)
(***************************************************************************)
\* Correlations._extract_yield_from_hist
ExtractYield(h, central_value) == [value |-> (h + central_value) % 17, error |-> 1]

\* Correlations.extract_yields
extract_yields_from_hists(a) ==
    IF a.dphi_subtracted = None
    THEN Result("AttributeError", a, FALSE)
    ELSE LET a1 == [a EXCEPT !.yields_delta_phi = [near_side |-> ExtractYield(a.dphi_subtracted, 0),
                                                   away_side |-> ExtractYield(a.dphi_subtracted, 3)]]
         IN IF a.deta_subtracted.near_side = None
            THEN Result("AttributeError", a1, FALSE)
            ELSE LET a2 == [a1 EXCEPT !.yields_delta_eta.near_side = ExtractYield(a.deta_subtracted.near_side, 0)]
                 IN IF a.deta_subtracted.away_side = None
                    THEN Result("AttributeError", a2, FALSE)
                    ELSE Result("none",
                                [a2 EXCEPT !.yields_delta_eta.away_side = ExtractYield(a.deta_subtracted.away_side, 0)],
                                TRUE)

\* Whether the loop body of an extraction stage passes its sanity check.
PostFitProcessed(a) == a.ran_post_fit_processing

\* The body of the loop of CorrelationsManager.extract_yields for one analysis.
extract_yields(a, y) ==
    IF ~PostFitProcessed(a)
    THEN Result("RuntimeError", a, y)
    ELSE IF opts["extract_yields"]
         THEN LET r == extract_yields_from_hists(a)
              IN IF r.err # "none" THEN Result(r.err, r.a, y)
                 ELSE Result("none", r.a,
                             WriteValue(WriteValue(y, "yields_delta_phi", r.a.yields_delta_phi),
                                        "yields_delta_eta", r.a.yields_delta_eta))
         ELSE IF ~y.exists
              THEN Result("FileNotFoundError", a, y)
              ELSE IF "yields_delta_phi" \notin Keys(y)
                   THEN Result("KeyError", a, y)
                   ELSE LET a1 == [a EXCEPT !.yields_delta_phi = y.recs["yields_delta_phi"]]
                        IN IF "yields_delta_eta" \notin Keys(y)
                           THEN Result("KeyError", a1, y)
                           ELSE Result("none", [a1 EXCEPT !.yields_delta_eta = y.recs["yields_delta_eta"]], y)

\* CorrelationsManager.extract_yields, one iteration
StepExtractYields ==
    /\ InStage("extract_yields")
    /\ LET r == extract_yields(an[pos], yamlFile[pos])
       IN /\ an' = [an EXCEPT ![pos] = r.a]
          /\ yamlFile' = [yamlFile EXCEPT ![pos] = r.f]
          /\ Mark(pos, IF r.err = "none" THEN {"extract_yields"} ELSE {})
          /\ Finish(r.err)
    /\ UNCHANGED <<aux, run, opts, fit_objects, rootFile, rpfFile>>

\* The Gaussian fit of one subtracted hist, seeded by the reaction plane fit.
FitWidth(h, component) == (h + component) % 19

\* Correlations.extract_widths
extract_widths_from_hists(a) ==
    IF a.fit_object = None \/ a.dphi_subtracted = None
    THEN Result("AttributeError", a, FALSE)
    ELSE LET a1 == [a EXCEPT !.widths_delta_phi = [near_side |-> FitWidth(a.dphi_subtracted, a.fit_object),
                                                   away_side |-> FitWidth(a.dphi_subtracted, a.fit_object + 3)]]
         IN IF a.deta_subtracted.near_side = None
            THEN Result("AttributeError", a1, FALSE)
            ELSE LET a2 == [a1 EXCEPT !.widths_delta_eta.near_side = FitWidth(a.deta_subtracted.near_side, 0)]
                 IN IF a.deta_subtracted.away_side = None
                    THEN Result("AttributeError", a2, FALSE)
                    ELSE Result("none",
                                [a2 EXCEPT !.widths_delta_eta.away_side = FitWidth(a.deta_subtracted.away_side, 0)],
                                TRUE)

\* The body of the loop of CorrelationsManager.extract_widths for one analysis.
extract_widths(a, y) ==
    IF ~PostFitProcessed(a)
    THEN Result("RuntimeError", a, y)
    ELSE IF opts["extract_widths"]
         THEN LET r == extract_widths_from_hists(a)
              IN IF r.err # "none" THEN Result(r.err, r.a, y)
                 ELSE Result("none", r.a,
                             WriteValue(WriteValue(y, "widths_delta_phi", r.a.widths_delta_phi),
                                        "widths_delta_eta", r.a.widths_delta_eta))
         ELSE IF ~y.exists
              THEN Result("FileNotFoundError", a, y)
              ELSE IF "widths_delta_phi" \notin Keys(y)
                   THEN Result("KeyError", a, y)
                   ELSE LET a1 == [a EXCEPT !.widths_delta_phi = y.recs["widths_delta_phi"]]
                        IN IF "widths_delta_eta" \notin Keys(y)
                           THEN Result("KeyError", a1, y)
                           ELSE Result("none", [a1 EXCEPT !.widths_delta_eta = y.recs["widths_delta_eta"]], y)

\* CorrelationsManager.extract_widths, one iteration
StepExtractWidths ==
    /\ InStage("extract_widths")
    /\ LET r == extract_widths(an[pos], yamlFile[pos])
       IN /\ an' = [an EXCEPT ![pos] = r.a]
          /\ yamlFile' = [yamlFile EXCEPT ![pos] = r.f]
          /\ Mark(pos, IF r.err = "none" THEN {"extract_widths"} ELSE {})
          /\ Finish(r.err)
    /\ UNCHANGED <<aux, run, opts, fit_objects, rootFile, rpfFile>>

(***************************************************************************)
(* Specification.                                                          *)
(***************************************************************************)
Step ==
    \/ EndStage
    \/ StepSetup
    \/ StepRunProjections
    \/ StepFitDeltaEta
    \/ StepReactionPlaneFit
    \/ StepSubtractReactionPlaneFits
    \/ StepSubtractDeltaEtaFits
    \/ StepExtractYields
    \/ StepExtractWidths

\* One manager, whose methods are called in any order.
Next ==
    \/ \E e \in EntryNames : Call(e)
    \/ \E b \in 1..MaxDirectBin : CallRunProjections(b)
    \/ Step

Spec == Init /\ [][Next]_vars

\* Successive program runs, each constructing a manager and calling run().
NextRuns ==
    \/ Construct
    \/ Call("run")
    \/ Step

SpecRuns == Init /\ [][NextRuns]_vars

TypeOK ==
    /\ run \in 1..MaxRuns
    /\ opts \in Options
    /\ err \in ErrorNames
    /\ entry \in EntryNames \cup {"none", "analysis.run_projections"}
    /\ \A b \in Bins : done[b] \subseteq StageNames \cup {"project_2d", "project_1d"}

(***************************************************************************)
(* Properties.                                                             *)
(***************************************************************************)
\* The per-bin stage completions in pipeline order.
DoneOrder == <<"setup", "project_2d", "project_1d", "_fit_delta_eta_correlations",
               "_reaction_plane_fit", "_subtract_reaction_plane_fits",
               "_subtract_delta_eta_fits", "extract_yields", "extract_widths">>

\* The completions a bin needs before a stage method may start on it.
Before(s) ==
    LET first == IF s = "run_projections" THEN 2
                 ELSE CHOOSE i \in DOMAIN DoneOrder : DoneOrder[i] = s
    IN {DoneOrder[j] : j \in 1..(first - 1)}

\* The bins the next iteration of the current stage works on.
CurrentBins == IF Head(todo) = "_reaction_plane_fit" THEN BinsOf(pos) ELSE {pos}

\* C1: in run() the stages execute in the order Setup, Project2D, Project1D,
\* FitPedestal, ReactionPlaneFit, Subtract delta phi, Subtract delta eta,
\* ExtractYields, ExtractWidths: a stage starts on a bin only when every
\* earlier stage has finished for that bin, and fitting starts only when every
\* bin has finished its projections.
C1_RunOrder ==
    /\ \A b \in Bins : \A i \in DOMAIN DoneOrder :
           DoneOrder[i] \in done[b] => \A j \in 1..(i - 1) : DoneOrder[j] \in done[b]
    /\ (entry = "run" /\ todo # <<>> /\ pos <= ZipLimit(Head(todo), fit_objects))
           => \A b \in CurrentBins : Before(Head(todo)) \subseteq done[b]
    /\ (entry = "run" /\ todo # <<>> /\ Head(todo) \notin {"setup", "run_projections"})
           => \A c \in Bins : "project_1d" \in done[c]
    /\ (\E b \in Bins : "_fit_delta_eta_correlations" \in done[b])
           => \A c \in Bins : "project_1d" \in done[c]

\* run() is about to extract the widths of the last bin.
C1_Witness ==
    /\ entry = "run"
    /\ todo = <<"extract_widths">>
    /\ pos = NumBins
    /\ \A b \in Bins : Before("extract_widths") \subseteq done[b]

\* C2: whenever the delta phi subtraction stage is invoked while some bin has
\* ran_fitting false, the stage fails with the precondition error and that
\* bin is not subtracted.
C2_SubtractionRequiresFit ==
    [][(todo # <<>> /\ Head(todo) = "_subtract_reaction_plane_fits"
          /\ \E b \in Bins : ~an[b].ran_fitting)
        => /\ todo' = todo \/ err' = "RuntimeError"
           /\ \A b \in Bins : ~an[b].ran_fitting
                  => an'[b].dphi_subtracted = an[b].dphi_subtracted]_vars

\* C3: the delta eta subtraction stage fails with an error for every bin
\* whose pedestal fit has neither been computed nor loaded, and never
\* subtracts using the initial placeholder pedestal.
C3_DeltaEtaSubtractionRequiresPedestal ==
    [][(InStage("_subtract_delta_eta_fits")
          /\ an[pos].fit_objects_delta_eta = InitialDeltaEtaFitObjects)
        => /\ err' # "none"
           /\ an'[pos].deta_subtracted = an[pos].deta_subtracted]_vars

\* A bin on which nothing but setup has run since construction.
FreshBin(b) == [an[b] EXCEPT !.setup = FALSE] = NewCorrelations(opts)

\* C4: if subtract_fits is invoked on a freshly constructed bin, the call
\* fails on that bin and the persisted record file of the bin is left unchanged.
C4_NoRecordForFreshBin ==
    [][\A b \in Bins :
         (entry = "subtract_fits" /\ todo # <<>> /\ FreshBin(b))
           => /\ yamlFile'[b] = yamlFile[b]
              /\ (Head(todo) = "_subtract_delta_eta_fits" /\ pos = b) => err' # "none"]_vars

\* subtract_fits has failed on a manager whose bins are all fresh, and no
\* record file exists.
C4_Witness ==
    /\ entry = "subtract_fits"
    /\ todo = <<>>
    /\ err # "none"
    /\ \A b \in Bins : FreshBin(b) /\ yamlFile[b] = NoFile

\* C5: yield and width extraction for a bin fail with an error, without
\* extracting or persisting anything for the bin, unless both the delta phi
\* and the delta eta subtraction have completed for the bin.
C5_ExtractionRequiresSubtraction ==
    [][\A s \in {"extract_yields", "extract_widths"} :
         (InStage(s) /\ ~({"_subtract_reaction_plane_fits", "_subtract_delta_eta_fits"}
                             \subseteq done[pos]))
           => /\ err' # "none"
              /\ an'[pos] = an[pos]
              /\ yamlFile'[pos] = yamlFile[pos]]_vars

\* C6: ran_projections, ran_fitting and ran_post_fit_processing are false on
\* a constructed bin, and no operation, a failing call included, ever takes
\* one of them from true back to false.
C6_FlagsMonotone ==
    /\ \A b \in Bins : ~an[b].ran_projections /\ ~an[b].ran_fitting
                         /\ ~an[b].ran_post_fit_processing
    /\ [][\A b \in Bins :
            /\ an[b].ran_projections => an'[b].ran_projections
            /\ an[b].ran_fitting => an'[b].ran_fitting
            /\ an[b].ran_post_fit_processing => an'[b].ran_post_fit_processing]_vars

\* A call has failed on a manager holding a bin with all three flags set.
C6_Witness ==
    /\ todo = <<>>
    /\ err = "RuntimeError"
    /\ entry = "_reaction_plane_fit"
    /\ \E b \in Bins : an[b].ran_projections /\ an[b].ran_fitting
                         /\ an[b].ran_post_fit_processing

\* C7: when the 2D stage of run_projections computes (generate2DCorrelations
\* is set or the output file is missing), the 1D stage of the same call
\* computes as well, whatever generate1DCorrelations says: the 1D hists are
\* projected from the 2D hists just created, and they are written to the file.
C7_Compute2DForces1D ==
    [][(InStage("run_projections") /\ an[pos].setup
          /\ (opts["generate2DCorrelations"] \/ ~rootFile[pos].exists))
        => /\ an'[pos].ran_projections
           /\ an'[pos].fit1DCorrelations
           /\ an'[pos].hists_1d = Create1DCorrelations(Create2DCorrelations(pos))
           /\ \A k \in DOMAIN NoHists1D :
                  k \in Keys(rootFile'[pos]) /\ rootFile'[pos].recs[k] = an'[pos].hists_1d[k]]_vars

\* A bin was projected without generate1DCorrelations in the configuration,
\* and its 1D hists were computed nonetheless.
C7_Witness ==
    /\ ~opts["generate1DCorrelations"]
    /\ \E b \in Bins : /\ an[b].ran_projections
                       /\ an[b].fit1DCorrelations
                       /\ an[b].hists_1d = Create1DCorrelations(Create2DCorrelations(b))

\* C8: for every stage, what a bin holds in memory once the stage has run is
\* what computing the stage yields, whether the stage computed or loaded the
\* records persisted by an earlier run: histograms, number of triggers, fit
\* results, yields, widths and stage flags.
C8_LoadEqualsCompute ==
    \A b \in Bins :
      LET h2 == Create2DCorrelations(b)
          h1 == Create1DCorrelations(h2)
      IN /\ "project_2d" \in done[b]
              => /\ an[b].hists_2d = h2
                 /\ an[b].number_of_triggers_hist = TriggerSpectrum(b)
                 /\ an[b].number_of_triggers = determine_number_of_triggers(TriggerSpectrum(b))
         /\ "project_1d" \in done[b]
              => an[b].hists_1d = h1 /\ an[b].ran_projections
         /\ "_fit_delta_eta_correlations" \in done[b]
              => an[b].fit_objects_delta_eta =
                     [near_side |-> FitPedestal(h1.deta_near_side),
                      away_side |-> FitPedestal(h1.deta_away_side)]
         /\ "_reaction_plane_fit" \in done[b]
              => /\ an[b].fit_object = FitComponent(JointFit(an, GroupOf(b)), b)
                 /\ an[b].ran_fitting
         /\ "_subtract_reaction_plane_fits" \in done[b]
              => an[b].dphi_subtracted = SubtractedDeltaPhi(an[b])
         /\ "_subtract_delta_eta_fits" \in done[b]
              => an[b].deta_subtracted = subtract_delta_eta_correlations(an[b]).a.deta_subtracted
         /\ "extract_yields" \in done[b]
              => /\ an[b].yields_delta_phi = extract_yields_from_hists(an[b]).a.yields_delta_phi
                 /\ an[b].yields_delta_eta = extract_yields_from_hists(an[b]).a.yields_delta_eta
         /\ "extract_widths" \in done[b]
              => /\ an[b].widths_delta_phi = extract_widths_from_hists(an[b]).a.widths_delta_phi
                 /\ an[b].widths_delta_eta = extract_widths_from_hists(an[b]).a.widths_delta_eta

\* C9: when the minimizer does not converge for a bin-group whose bins hold
\* their projections, the result of the group is not stored and the fit stage
\* goes on with the next group instead of aborting.
C9_FailedFitIsSkipped ==
    [][(InStage("_reaction_plane_fit") /\ opts["fit_correlations"]
          /\ \A b \in BinsOf(pos) : an[b].ran_projections /\ FitInput(an, b) # None)
        => /\ err' = "none"
           /\ todo' = todo
           /\ pos' = pos + 1]_vars

\* C10: the joint fit of a bin-group starts only when every orientation bin
\* of the group has ran_projections: otherwise the stage fails with an error
\* and no fit is performed, stored or marked, so a bin is only ever marked as
\* fitted when every bin of its group has ran_projections.
C10_FitRequiresProjections ==
    [][/\ (InStage("_reaction_plane_fit") /\ \E b \in BinsOf(pos) : ~an[b].ran_projections)
           => (err' = "ValueError" /\ UNCHANGED <<an, fit_objects, rpfFile>>)
       /\ \A b \in Bins : an'[b].ran_fitting
           => \A c \in BinsOf(GroupOf(b)) : an'[c].ran_projections]_vars

\* The fit stage has failed on a group of which one orientation is projected
\* and another is not; no bin of the group is marked as fitted.
C10_Witness ==
    /\ todo = <<>>
    /\ err = "ValueError"
    /\ entry = "_reaction_plane_fit"
    /\ \E g \in Groups :
         /\ \E b \in BinsOf(g) : an[b].ran_projections
         /\ \E b \in BinsOf(g) : ~an[b].ran_projections
         /\ \A b \in BinsOf(g) : ~an[b].ran_fitting /\ an[b].fit_object = None
    /\ fit_objects = <<>>

\* C11: a stage that loads (its processing option is off) and does not find
\* the record it needs for the bin in the file (a histogram, the pedestal
\* fit, the yields or the widths) fails with an error: it never completes
\* with the observable left unset.
C11_MissingRecordFailsLoad ==
    [][/\ (InStage("run_projections") /\ ~opts["generate2DCorrelations"] /\ rootFile[pos].exists
             /\ ~an[pos].generate1DCorrelations
             /\ \E k \in DOMAIN NoHists2D \cup DOMAIN NoHists1D : k \notin Keys(rootFile[pos]))
           => err' # "none"
       /\ (InStage("_fit_delta_eta_correlations") /\ ~opts["fit_correlations"]
             /\ "fit_objects_delta_eta" \notin Keys(yamlFile[pos]))
           => err' # "none"
       /\ (InStage("_subtract_reaction_plane_fits") /\ an[pos].ran_fitting
             /\ ~opts["subtract_correlations"]
             /\ "dphi_signal_dominated_subtracted" \notin Keys(yamlFile[pos]))
           => err' # "none"
       /\ (InStage("_subtract_delta_eta_fits") /\ ~opts["subtract_correlations"]
             /\ \E k \in {"deta_near_side_subtracted", "deta_away_side_subtracted"} :
                    k \notin Keys(yamlFile[pos]))
           => err' # "none"
       /\ (InStage("extract_yields") /\ an[pos].ran_post_fit_processing
             /\ ~opts["extract_yields"]
             /\ \E k \in {"yields_delta_phi", "yields_delta_eta"} : k \notin Keys(yamlFile[pos]))
           => err' # "none"
       /\ (InStage("extract_widths") /\ an[pos].ran_post_fit_processing
             /\ ~opts["extract_widths"]
             /\ \E k \in {"widths_delta_phi", "widths_delta_eta"} : k \notin Keys(yamlFile[pos]))
           => err' # "none"]_vars

\* The keys of the YAML file that the persist operation of a stage writes.
StageKeys(s) ==
    CASE s = "_fit_delta_eta_correlations" -> {"fit_objects_delta_eta"}
      [] s = "_subtract_reaction_plane_fits" -> {"dphi_signal_dominated_subtracted"}
      [] s = "_subtract_delta_eta_fits" -> {"deta_near_side_subtracted", "deta_away_side_subtracted"}
      [] s = "extract_yields" -> {"yields_delta_phi", "yields_delta_eta"}
      [] s = "extract_widths" -> {"widths_delta_phi", "widths_delta_eta"}
      [] OTHER -> {}

\* The value of the attribute of an analysis that is persisted under a key.
PersistedAttribute(a, k) ==
    CASE k = "fit_objects_delta_eta" -> a.fit_objects_delta_eta
      [] k = "dphi_signal_dominated_subtracted" -> a.dphi_subtracted
      [] k = "deta_near_side_subtracted" -> a.deta_subtracted.near_side
      [] k = "deta_away_side_subtracted" -> a.deta_subtracted.away_side
      [] k = "yields_delta_phi" -> a.yields_delta_phi
      [] k = "yields_delta_eta" -> a.yields_delta_eta
      [] k = "widths_delta_phi" -> a.widths_delta_phi
      [] k = "widths_delta_eta" -> a.widths_delta_eta

\* C12: every persist operation on the YAML record file keeps every key that
\* is already in the file and that it does not write, with its value, and
\* maps each key it writes to the new value; so after any series of writes
\* the file holds the union of the keys written, each with its last value.
C12_PersistMerges ==
    [][\A b \in Bins :
         /\ Keys(yamlFile[b]) \subseteq Keys(yamlFile'[b])
         /\ \A k \in Keys(yamlFile'[b]) :
              \/ k \in Keys(yamlFile[b]) /\ yamlFile'[b].recs[k] = yamlFile[b].recs[k]
              \/ /\ todo # <<>> /\ b = pos /\ k \in StageKeys(Head(todo))
                 /\ yamlFile'[b].recs[k] = PersistedAttribute(an'[b], k)]_vars

\* A record file has received every persist operation of the pipeline, and
\* holds each record with the value the bin has in memory.
C12_Witness ==
    \E b \in Bins :
       /\ Keys(yamlFile[b]) = UNION {StageKeys(s) : s \in StageNames}
       /\ \A k \in Keys(yamlFile[b]) : yamlFile[b].recs[k] = PersistedAttribute(an[b], k)
       /\ opts["extract_widths"] /\ "extract_widths" \in done[b]

(***************************************************************************)
(* Concurrent writers of one YAML record file.  Each writer runs the       *)
(* persist cycle of _write_hists_to_yaml, write_delta_eta_fit_results and  *)
(* _write_extracted_values_to_YAML: open with "a+" and load, truncate,     *)
(* assign its key in the loaded mapping, dump.  Nothing in the code locks  *)
(* the file, so the steps of two writers may interleave.                   *)
(***************************************************************************)
\* Number of writers of the same file.
NumWriters == 2
Writers == 1..NumWriters
\* The keys a writer may store.
WriterKeys == {"fit_objects_delta_eta", "yields_delta_phi"}

IdleWriter == [pc |-> "idle", key |-> "none", output |-> <<>>, raced |-> FALSE]

\* A writer is between its load and its dump.
MidCycle(w) == writer[w].pc \in {"loaded", "truncated"}

\* An assignment into a fresh mapping instead of the loaded one.
MergeMut(output, k, v) == Put(<<>>, k, v)

\* output[name] = value
Merge(output, k, v) == Put(output, k, v)

\* The content of the file after a dump in append mode.
Appended(f, output) ==
    [k \in (DOMAIN f) \cup (DOMAIN output) |-> IF k \in DOMAIN output THEN output[k] ELSE f[k]]

InitWriters ==
    /\ InitPipeline
    /\ opts = Config(TRUE, TRUE, TRUE, TRUE, TRUE, TRUE)
    /\ NoFunction
    /\ yfile \in {<<>>, Put(<<>>, "dphi_signal_dominated_subtracted", 0)}
    /\ writer = [w \in Writers |-> IdleWriter]

\* open(filename, "a+"); f.seek(0); output = y.load(f), an empty file giving {}
WriterLoad(w) ==
    /\ writer[w].pc = "idle"
    /\ \E k \in WriterKeys :
         writer' = [x \in Writers |->
                      IF x = w
                      THEN [pc |-> "loaded", key |-> k, output |-> yfile,
                            raced |-> \E o \in Writers \ {w} : MidCycle(o)]
                      ELSE IF MidCycle(x) THEN [writer[x] EXCEPT !.raced = TRUE]
                      ELSE writer[x]]
    /\ UNCHANGED <<pipelineVars, functionVars, yfile>>

\* f.truncate(0)
WriterTruncate(w) ==
    /\ writer[w].pc = "loaded"
    /\ yfile' = <<>>
    /\ writer' = [writer EXCEPT ![w].pc = "truncated"]
    /\ UNCHANGED <<pipelineVars, functionVars>>

\* output[name] = value; y.dump(output, f)
WriterDump(w) ==
    /\ writer[w].pc = "truncated"
    /\ LET output == Merge(writer[w].output, writer[w].key, w)
       IN /\ yfile' = Appended(yfile, output)
          /\ writer' = [writer EXCEPT ![w].pc = "done", ![w].output = output]
    /\ UNCHANGED <<pipelineVars, functionVars>>

NextWriters ==
    \E w \in Writers : WriterLoad(w) \/ WriterTruncate(w) \/ WriterDump(w)

SpecWriters == InitWriters /\ [][NextWriters]_vars

\* Every writer has finished its cycle.
WritersDone == \A w \in Writers : writer[w].pc = "done"

\* C13: when the persist cycles of the writers of one record file are
\* serialized by the caller, no written key is ever lost: once all are done
\* the file holds the key of every writer and everything a writer loaded;
\* when their steps interleave an update can be lost.
C13_SerializedWritersKeepKeys ==
    (WritersDone /\ \A w \in Writers : ~writer[w].raced)
        => \A w \in Writers :
              /\ writer[w].key \in DOMAIN yfile
              /\ DOMAIN writer[w].output \subseteq DOMAIN yfile

\* Two cycles have interleaved and the key written by one writer is absent
\* from the final file.
C13_Witness ==
    /\ WritersDone
    /\ \E w \in Writers : writer[w].raced /\ writer[w].key \notin DOMAIN yfile

(***************************************************************************)
(* Function applications: a function of the analysis is applied to         *)
(* arguments drawn from a bounded set; fn, arg and out record the call.    *)
(* The functions keep no state, so a behaviour holds one application.      *)
(***************************************************************************)
InitFunctions ==
    /\ InitPipeline
    /\ opts = Config(TRUE, TRUE, TRUE, TRUE, TRUE, TRUE)
    /\ NoWriters
    /\ NoFunction

(***************************************************************************)
(* Identifiers.                                                            *)
(***************************************************************************)
JetPtBins == {[min |-> 15, max |-> 20], [min |-> 20, max |-> 40]}
TrackPtBins == {[min |-> 1, max |-> 2], [min |-> 2, max |-> 3]}
Orientations == {"inclusive", "in_plane", "mid_plane", "out_of_plane"}

\* The kinematic selection of a Correlations object.
AnalysisBins ==
    [jet_pt : JetPtBins, track_pt : TrackPtBins, reaction_plane_orientation : Orientations]

\* Correlations.identifier: the parts of the formatted string, which are
\* joined by "_".
identifier(biased, bin) ==
    <<IF biased THEN "jetPtBiased" ELSE "jetPt", bin.jet_pt.min, bin.jet_pt.max,
      "trackPt", bin.track_pt.min, bin.track_pt.max>>

\* CorrelationObservable1D.name with the analysis identifier filled in.
ObservableName(axis, analysis_identifier, type) == <<"jetH", axis, analysis_identifier, type>>

\* The keys of write_yields_to_YAML.
YieldKeys(analysis_identifier) ==
    {<<analysis_identifier, "yields_delta_phi">>, <<analysis_identifier, "yields_delta_eta">>}

\* What a bin derives from its selection to name what it persists.
PersistenceNames(biased, bin) ==
    [identifier |-> identifier(biased, bin),
     name |-> ObservableName("delta_phi", identifier(biased, bin), "signal_dominated"),
     keys |-> YieldKeys(identifier(biased, bin))]

\* Two Correlations objects are constructed from one configuration.
ApplyIdentifier ==
    /\ fn = "none"
    /\ \E biased \in BOOLEAN : \E b1 \in AnalysisBins : \E b2 \in AnalysisBins :
          /\ fn' = "identifier"
          /\ arg' = <<b1, b2>>
          /\ out' = <<PersistenceNames(biased, b1), PersistenceNames(biased, b2)>>
    /\ UNCHANGED <<pipelineVars, writerVars>>

\* C14: the identifier of a bin, and with it the observable names and the
\* persistence keys built from it, is distinct for any two bins that differ
\* in jet-pt range, track-pt range or orientation.
C14_IdentifierDistinct ==
    (fn = "identifier" /\ arg[1] # arg[2])
        => /\ out[1].identifier # out[2].identifier
           /\ out[1].name # out[2].name
           /\ out[1].keys \cap out[2].keys = {}

(***************************************************************************)
(* Mixed event normalization (correlations_helpers.py).  Bin contents and  *)
(* scale factors are exact fractions [num, den] in lowest terms; the delta *)
(* eta axis has NumEtaBins bins of equal width, and eta_limits are given   *)
(* in bin edges, edge 0 being the low edge of the first bin.               *)
(***************************************************************************)
NumPhiBins == 37
NumEtaBins == 3
MaxContent == 2
MaxScale == 3
MovingAverageWindow == 36
PhiBins == 1..NumPhiBins
EtaBins == 1..NumEtaBins

RECURSIVE GCD(_, _)
GCD(a, b) == IF b = 0 THEN a ELSE GCD(b, a % b)

Fraction(n, d) == [num |-> n \div GCD(n, d), den |-> d \div GCD(n, d)]
Plus(x, y) == Fraction(x.num * y.den + y.num * x.den, x.den * y.den)
Times(x, y) == Fraction(x.num * y.num, x.den * y.den)
Less(x, y) == x.num * y.den < y.num * x.den

\* A flat mixed event of content v, and one with a single bin replaced.
Uniform(v) == [p \in PhiBins |-> [e \in EtaBins |-> v]]
WithBin(h, p, e, c) == [h EXCEPT ![p][e] = c]
MixedEvents ==
    {WithBin(Uniform(v), p, e, c) :
        v \in 0..MaxContent, p \in {1, NumPhiBins}, e \in EtaBins, c \in 0..MaxContent}
EtaLimits == {l \in (0..NumEtaBins) \X (0..NumEtaBins) : l[1] < l[2]}

\* TAxis.FindBin for a value just above or just below a bin edge.
FindBinAbove(edge) == edge + 1
FindBinBelow(edge) == edge

\* TH2.ProjectionX over the delta eta bins first..last.
RECURSIVE ProjectionX(_, _, _, _)
ProjectionX(h, p, first, last) ==
    IF first > last THEN 0 ELSE h[p][first] + ProjectionX(h, p, first + 1, last)

\* The array of the projection over the eta window, scaled by bin width
\* over projection length.
peak_finding_hist_arrayMut(mixed_event, eta_limits) ==
    [p \in PhiBins |->
        Fraction(ProjectionX(mixed_event, p, FindBinAbove(eta_limits[1]),
                             FindBinBelow(eta_limits[2])), 1)]

peak_finding_hist_array(mixed_event, eta_limits) ==
    LET first == FindBinAbove(eta_limits[1])
        last == FindBinBelow(eta_limits[2])
        projection_length == last - (first - 1)
    IN  [p \in PhiBins |->
            Times(Fraction(ProjectionX(mixed_event, p, first, last), 1),
                  Fraction(1, projection_length))]

RECURSIVE WindowSum(_, _, _)
WindowSum(a, first, last) ==
    IF first = last THEN a[first]
    ELSE LET middle == (first + last) \div 2
         IN  Plus(WindowSum(a, first, middle), WindowSum(a, middle + 1, last))

\* utils.moving_average: the means of the Len(a) - n + 1 windows of n bins.
moving_averageMut(a, n) ==
    [i \in 1..(Len(a) - n + 1) |->
        Plus(Times(WindowSum(a, i, i + n - 1), Fraction(1, n)), Fraction(1, 1))]

moving_average(a, n) ==
    [i \in 1..(Len(a) - n + 1) |->
        Times(WindowSum(a, i, i + n - 1), Fraction(1, n))]

max(a) == CHOOSE x \in {a[i] : i \in DOMAIN a} : \A i \in DOMAIN a : ~Less(x, a[i])

measure_mixed_event_normalizationMut(mixed_event, eta_limits) ==
    max(moving_average(peak_finding_hist_array(mixed_event, eta_limits),
                       MovingAverageWindow))

measure_mixed_event_normalization(mixed_event, eta_limits) ==
    LET moving_avg == moving_average(peak_finding_hist_array(mixed_event, eta_limits),
                                     MovingAverageWindow)
        max_moving_avg == max(moving_avg)
    IN  IF ~(max_moving_avg # Fraction(0, 1)) THEN Fraction(1, 1) ELSE max_moving_avg

\* TH1.Scale on a histogram of whole or fractional contents.
Scale(h, k) == [p \in PhiBins |-> [e \in EtaBins |-> Times(Fraction(h[p][e], 1), k)]]
Inverse(x) == Fraction(x.den, x.num)

ApplyMeasureMixedEventNormalization ==
    /\ fn = "none"
    /\ \E mixed_event \in MixedEvents : \E eta_limits \in EtaLimits :
          /\ fn' = "measure_mixed_event_normalization"
          /\ arg' = <<mixed_event, eta_limits>>
          /\ out' = measure_mixed_event_normalization(mixed_event, eta_limits)
    /\ UNCHANGED <<pipelineVars, writerVars>>

\* The means of the windows of the recorded call's projected mixed event.
WindowMeans ==
    LET moving_avg == moving_average(peak_finding_hist_array(arg[1], arg[2]),
                                     MovingAverageWindow)
    IN  {moving_avg[i] : i \in DOMAIN moving_avg}

\* C15: measure_mixed_event_normalization never returns 0: it returns the
\* largest 36-bin moving average of the projected mixed event, and 1 when
\* that maximum is exactly zero, so that 1/normalization is defined.
C15_NormalizationNeverZero ==
    fn = "measure_mixed_event_normalization"
        => /\ out.num # 0
           /\ out.den # 0
           /\ IF WindowMeans = {Fraction(0, 1)}
              THEN out = Fraction(1, 1)
              ELSE /\ out \in WindowMeans
                   /\ \A m \in WindowMeans : ~Less(out, m)

C15_Witness ==
    /\ fn = "measure_mixed_event_normalization"
    /\ WindowMeans = {Fraction(0, 1)}
    /\ out = Fraction(1, 1)

\* TH1.Scale of a histogram of whole contents by a whole factor.
Rescaled(h, k) == [p \in PhiBins |-> [e \in EtaBins |-> k * h[p][e]]]

\* The normalization of a mixed event and of the same mixed event scaled by k.
ApplyRescaledNormalization ==
    /\ fn = "none"
    /\ \E mixed_event \in MixedEvents : \E eta_limits \in EtaLimits : \E k \in 1..MaxScale :
          /\ fn' = "rescaled_normalization"
          /\ arg' = <<mixed_event, eta_limits, k>>
          /\ out' = <<measure_mixed_event_normalization(mixed_event, eta_limits),
                      measure_mixed_event_normalization(Rescaled(mixed_event, k), eta_limits)>>
    /\ UNCHANGED <<pipelineVars, writerVars>>

\* C16 as stated: for every mixed event H and every positive k, the
\* normalization of k*H is k times the normalization of H.
C16_NormalizationLinear ==
    fn = "rescaled_normalization"
        => out[2] = Times(Fraction(arg[3], 1), out[1])

\* Some window of neighbouring delta phi bins holds a nonzero content inside
\* the eta window of the recorded call.
NonzeroWindow ==
    \E i \in 1..(NumPhiBins - MovingAverageWindow + 1) :
        \E p \in i..(i + MovingAverageWindow - 1) :
            \E e \in (arg[2][1] + 1)..arg[2][2] : arg[1][p][e] # 0

\* C16 amended: the normalization of k*H is k times the normalization of H
\* for every mixed event whose windows are not all empty; for a mixed event
\* whose windows are all empty both normalizations are 1.
C16_NormalizationLinearWhenNonzero ==
    fn = "rescaled_normalization"
        => IF NonzeroWindow
           THEN out[2] = Times(Fraction(arg[3], 1), out[1])
           ELSE out[1] = Fraction(1, 1) /\ out[2] = Fraction(1, 1)

C16_Witness ==
    /\ fn = "rescaled_normalization"
    /\ NonzeroWindow
    /\ arg[3] > 1
    /\ out[2] = Times(Fraction(arg[3], 1), out[1])
    /\ out[2] # out[1]

\* post_projection_processing_for_2d_correlation: the histogram scaled by
\* one over the normalization factor.
post_projection_processing_for_2d_correlation(hist, normalization_factor) ==
    Scale(hist, Inverse(normalization_factor))

\* The flat mixed events, that of content 10 among them.
UniformContents == (1..MaxContent) \cup {10}

\* _create_2d_raw_and_mixed_correlations: the mixed event is measured and
\* then scaled by the measured factor.
ApplyNormalizeMixedEvent ==
    /\ fn = "none"
    /\ \E mixed_event \in MixedEvents \cup {Uniform(v) : v \in UniformContents} :
       \E eta_limits \in EtaLimits :
          LET mixed_event_normalization_factor ==
                  measure_mixed_event_normalization(mixed_event, eta_limits)
          IN  /\ fn' = "normalize_mixed_event"
              /\ arg' = <<mixed_event, eta_limits>>
              /\ out' = [normalization_factor |-> mixed_event_normalization_factor,
                         hist |-> post_projection_processing_for_2d_correlation(
                                      mixed_event, mixed_event_normalization_factor)]
    /\ UNCHANGED <<pipelineVars, writerVars>>

\* C17: for a mixed event holding the same nonzero value v in every bin the
\* measured normalization is v, and after scaling by 1/normalization every
\* bin of the mixed event is 1.
C17_UniformMixedEventNormalizesToOne ==
    \A v \in UniformContents :
        (fn = "normalize_mixed_event" /\ arg[1] = Uniform(v))
            => /\ out.normalization_factor = [num |-> v, den |-> 1]
               /\ \A p \in PhiBins : \A e \in EtaBins : out.hist[p][e] = [num |-> 1, den |-> 1]

C17_Witness ==
    /\ fn = "normalize_mixed_event"
    /\ arg[1] = Uniform(10)
    /\ arg[2][2] - arg[2][1] > 1
    /\ out.normalization_factor = [num |-> 10, den |-> 1]
    /\ \A p \in PhiBins : \A e \in EtaBins : out.hist[p][e] = [num |-> 1, den |-> 1]

(***************************************************************************)
(* The reaction plane fit (fit.py).  A parameter name is a pair of prefix  *)
(* and name; probfit shares between the components of a SimultaneousFit    *)
(* the parameters of equal name.  The orientation "inclusive" is           *)
(* ReactionPlaneOrientation.all.                                           *)
(***************************************************************************)
MaxPoints == 5
CorrelationTypes == {"signal_dominated", "background_dominated"}
Range(s) == {s[i] : i \in DOMAIN s}
Unprefixed(names) == [i \in DOMAIN names |-> <<"", names[i]>>]

\* probfit.describe of the three model functions.
Fourier == Unprefixed(<<"x", "BG", "v2_t", "v2_a", "v4_t", "v4_a", "v1", "v3">>)
BackgroundWrapper == Unprefixed(<<"x", "B", "v2_t", "v2_a", "v4_t", "v4_a", "v1", "v3">>)
SignalWrapper ==
    Unprefixed(<<"x", "nsAmplitude", "asAmpltiude", "nsSigma", "asSigma", "signalPedestal">>)

\* The arguments of f followed by those of g that f does not have.
MergeArgs(f, g) == f \o SelectSeq(g, LAMBDA a : a \notin Range(f))

\* probfit AddPdf: the arguments of both functions, each argument outside
\* skip_prefix renamed with the prefix of its function.
Prefixed(f, prefix, skip_prefix) ==
    [i \in DOMAIN f |-> IF f[i] \in skip_prefix THEN f[i] ELSE <<prefix, f[i][2]>>]
AddPdf(f, g, prefix, skip_prefix) ==
    MergeArgs(Prefixed(f, prefix[1], skip_prefix), Prefixed(g, prefix[2], skip_prefix))

GetBackgroundDominatedFitFunction(epAngle) ==
    IF epAngle = "inclusive" THEN Fourier ELSE BackgroundWrapper

GetSignalDominatedFitFunctionMut(epAngle) ==
    IF epAngle = "inclusive"
    THEN AddPdf(SignalWrapper, Fourier, <<"", "">>, {})
    ELSE AddPdf(SignalWrapper, GetBackgroundDominatedFitFunction(epAngle),
                <<epAngle, "BG">>, {})

GetSignalDominatedFitFunction(epAngle) ==
    LET backgroundFunc == GetBackgroundDominatedFitFunction(epAngle)
    IN  IF epAngle = "inclusive"
        THEN AddPdf(SignalWrapper, Fourier, <<"", "">>, {})
        ELSE AddPdf(SignalWrapper, backgroundFunc, <<epAngle, "BG">>, Range(backgroundFunc))

GetFitFunction(fitType, epAngle) ==
    IF fitType = "signal_dominated"
    THEN GetSignalDominatedFitFunction(epAngle)
    ELSE GetBackgroundDominatedFitFunction(epAngle)

CheckIfFitIsEnabled(fitConfig, epAngle, correlationType) ==
    IF correlationType = "signal_dominated"
    THEN /\ fitConfig.includeSignalInFit
         /\ ~(epAngle # "inclusive" /\ fitConfig.allAnglesSignal)
    ELSE /\ ~(epAngle = "inclusive" /\ ~fitConfig.allAnglesBackground)
         /\ ~(epAngle # "inclusive" /\ fitConfig.allAnglesBackground)

\* A histogram of n points; the content and the error tell the points apart.
Histogram(n) ==
    [x |-> [i \in 1..n |-> i], array |-> [i \in 1..n |-> 10 + i],
     errors |-> [i \in 1..n |-> 20 + i]]
FitConfigs ==
    [includeSignalInFit : BOOLEAN, allAnglesSignal : BOOLEAN,
     allAnglesBackground : BOOLEAN, logLikelihood : BOOLEAN]

\* The near side half of the data: the first int(len/2) entries.
NearSide(s) == SubSeq(s, 1, Len(s) \div 2)

\* DefineFits: one cost function for every enabled observable of the
\* orientations, keyed by orientation and correlation type.  hists maps the
\* correlation type to the histogram of the observables of that type.
DefineFits(fitConfig, hists) ==
    [key \in {k \in Orientations \X CorrelationTypes : CheckIfFitIsEnabled(fitConfig, k[1], k[2])} |->
        LET hist == hists[key[2]]
            restricted == key[2] = "background_dominated"
            x == IF restricted THEN NearSide(hist.x) ELSE hist.x
            y == IF restricted THEN NearSide(hist.array) ELSE hist.array
            errors == IF restricted THEN NearSide(hist.errors) ELSE hist.errors
            fitFunc == GetFitFunction(key[2], key[1])
        IN  IF fitConfig.logLikelihood
            THEN [cost |-> "UnbinnedLH", f |-> fitFunc, data |-> x]
            ELSE [cost |-> "Chi2Regression", f |-> fitFunc, x |-> x, y |-> y, error |-> errors]]

ApplyDefineFits ==
    /\ fn = "none"
    /\ \E fitConfig \in FitConfigs : \E n \in 0..MaxPoints : \E m \in 0..MaxPoints :
          LET hists == [t \in CorrelationTypes |->
                           IF t = "signal_dominated" THEN Histogram(n) ELSE Histogram(m)]
          IN  /\ fn' = "DefineFits"
              /\ arg' = <<fitConfig, hists>>
              /\ out' = DefineFits(fitConfig, hists)
    /\ UNCHANGED <<pipelineVars, writerVars>>

\* The components of the joint fit of the recorded call, their orientations,
\* and the pedestal normalization among the parameters of a component.
SharedParameters == {"v2_t", "v2_a", "v4_t", "v4_a", "v1", "v3"}
Pedestals(key) == {a \in Range(out[key].f) : a[2] \in {"B", "BG"}}

\* C18 as stated: in the joint fit each of v2_t, v2_a, v4_t, v4_a, v1, v3 is one
\* parameter shared by all orientation components, and no two orientation
\* components share a pedestal normalization parameter.
C18_PedestalPerOrientation ==
    fn = "DefineFits"
        => /\ \A key \in DOMAIN out : \A p \in SharedParameters : <<"", p>> \in Range(out[key].f)
           /\ \A k1 \in DOMAIN out : \A k2 \in DOMAIN out :
                  k1[1] # k2[1] => Pedestals(k1) \cap Pedestals(k2) = {}

\* C18 amended: each of v2_t, v2_a, v4_t, v4_a, v1, v3 is one parameter
\* shared by all orientation components; the pedestal normalization B is
\* one parameter shared by the in plane, mid plane and out of plane
\* components, and only the inclusive component has a pedestal of its own,
\* BG.
C18_PedestalSharedByEventPlanes ==
    fn = "DefineFits"
        => \A key \in DOMAIN out :
               /\ \A p \in SharedParameters : <<"", p>> \in Range(out[key].f)
               /\ Pedestals(key) = IF key[1] = "inclusive" THEN {<<"", "BG">>} ELSE {<<"", "B">>}

C18_Witness ==
    /\ fn = "DefineFits"
    /\ <<"in_plane", "signal_dominated">> \in DOMAIN out
    /\ <<"out_of_plane", "background_dominated">> \in DOMAIN out
    /\ <<"in_plane", "nsSigma">> \in Range(out[<<"in_plane", "signal_dominated">>].f)
    /\ Pedestals(<<"in_plane", "signal_dominated">>)
           = Pedestals(<<"out_of_plane", "background_dominated">>)

\* The first count entries of a sequence, and the data a cost function of
\* the recorded call was given.
FirstEntries(s, count) == [i \in 1..count |-> s[i]]
Contributes(key, count) ==
    LET hist == arg[2][key[2]]
    IN  /\ out[key].cost = "Chi2Regression"
        /\ out[key].x = FirstEntries(hist.x, count)
        /\ out[key].y = FirstEntries(hist.array, count)
        /\ out[key].error = FirstEntries(hist.errors, count)

\* C19: a background-dominated observable of n points contributes its first
\* floor(n/2) points with matching x, y and error entries, and a signal
\* dominated observable contributes all its n points.
C19_NearSideHalf ==
    fn = "DefineFits"
        => \A key \in DOMAIN out :
               LET n == Len(arg[2][key[2]].x)
               IN  IF key[2] = "background_dominated"
                   THEN Contributes(key, n \div 2)
                   ELSE Contributes(key, n)

(***************************************************************************)
(* CalculateRPFError at one bin centre.  The gradient of the fit function  *)
(* at the point is an input: one partial derivative for every argument of  *)
(* the call, x first.  The result is the error squared, before the root.   *)
(***************************************************************************)
RECURSIVE SumTerms(_, _, _)
SumTerms(t, first, last) ==
    IF first > last THEN 0
    ELSE IF first = last THEN t[first]
    ELSE LET middle == (first + last) \div 2
         IN  SumTerms(t, first, middle) + SumTerms(t, middle + 1, last)

\* list.index: the position of the first entry equal to value.
Index(list, value) ==
    CHOOSE i \in DOMAIN list : list[i] = value /\ \A j \in 1..(i - 1) : list[j] # value

\* GetArgsForFunc: the arguments of the call in order, x first; the values
\* of the fit container are given in the order of the description of func.
GetArgsForFunc(func, xValue, fitContainer) ==
    LET funcDescription == SelectSeq(func, LAMBDA a : a # <<"", "x">>)
    IN  [names |-> <<(<<"", "x">>)>> \o funcDescription,
         values |-> <<xValue>> \o [i \in DOMAIN funcDescription |->
                        fitContainer.values[Index(func, funcDescription[i])]]]

CalculateRPFError(fitFunc, val, fitContainer, partialDerivative) ==
    LET argsForFuncCall == GetArgsForFunc(fitFunc, val, fitContainer)
        funcArgs == SelectSeq(fitFunc, LAMBDA a : a # <<"", "x">> /\ a[2] \notin fitContainer.fixed)
        listOfArgsForFuncCall == argsForFuncCall.values
        value(name) == argsForFuncCall.values[Index(argsForFuncCall.names, name)]
        count == Len(funcArgs)
        term(k) ==
            LET iName == funcArgs[((k - 1) \div count) + 1]
                jName == funcArgs[((k - 1) % count) + 1]
                iNameIndex == Index(listOfArgsForFuncCall, value(iName))
                jNameIndex == Index(listOfArgsForFuncCall, value(jName))
            IN  partialDerivative[iNameIndex] * partialDerivative[jNameIndex]
                    * fitContainer.covarianceMatrix[<<iName, jName>>]
    IN  SumTerms([k \in 1..(count * count) |-> term(k)], 1, count * count)

\* The inputs: parameter values that are all different or hold one pair of
\* equal entries (the first entry is the bin centre), the sets of fixed
\* parameters, two gradients and two covariance matrices.
ArgumentCount == Len(BackgroundWrapper)
DistinctValues == [i \in 1..ArgumentCount |-> 10 + i]
ArgumentValues ==
    {DistinctValues} \cup
    {[DistinctValues EXCEPT ![b] = DistinctValues[a]] :
        a \in 1..ArgumentCount, b \in 1..ArgumentCount}
FixedParameters == {{}, {"v1"}, {"v1", "v3"}}
Gradients == {[i \in 1..ArgumentCount |-> i], [i \in 1..ArgumentCount |-> 1]}
CovarianceMatrices ==
    {[p \in Range(BackgroundWrapper) \X Range(BackgroundWrapper) |->
         IF p[1] = p[2] THEN 2 ELSE c] : c \in 0..1}

ApplyCalculateRPFError ==
    /\ fn = "none"
    /\ \E v \in ArgumentValues : \E fixed \in FixedParameters :
       \E partialDerivative \in Gradients : \E covarianceMatrix \in CovarianceMatrices :
          LET fitContainer == [values |-> v, fixed |-> fixed,
                               covarianceMatrix |-> covarianceMatrix]
          IN  /\ fn' = "CalculateRPFError"
              /\ arg' = <<fitContainer, partialDerivative>>
              /\ out' = CalculateRPFError(BackgroundWrapper, v[1], fitContainer,
                                          partialDerivative)
    /\ UNCHANGED <<pipelineVars, writerVars>>

\* The double sum of the recorded call over the free parameters, each with
\* the partial derivative at its own position among the arguments.
FreePositions ==
    SelectSeq([i \in 1..ArgumentCount |-> i],
              LAMBDA i : i > 1 /\ BackgroundWrapper[i][2] \notin arg[1].fixed)
OwnDerivativeSum ==
    LET free == Len(FreePositions)
        first(k) == FreePositions[((k - 1) \div free) + 1]
        second(k) == FreePositions[((k - 1) % free) + 1]
    IN  SumTerms([k \in 1..(free * free) |->
                     arg[2][first(k)] * arg[2][second(k)]
                         * arg[1].covarianceMatrix[<<BackgroundWrapper[first(k)],
                                                     BackgroundWrapper[second(k)]>>]],
                 1, free * free)

\* C20: the propagated error squared is the double sum over the free
\* parameters of the products of their own partial derivatives and their
\* covariance, also when two arguments of the model hold equal values.
C20_ErrorUsesOwnDerivatives ==
    fn = "CalculateRPFError" => out = OwnDerivativeSum

(***************************************************************************)
(* Background subtraction on histograms of bins (correlations.py).  A ROOT *)
(* histogram has contents y and errors; a Histogram1D has contents y and   *)
(* squared errors, and its errors are the roots of those.                  *)
(***************************************************************************)
HistBins == 2
Hist1D(a, s, e) ==
    [y |-> [i \in 1..HistBins |-> a + s * i], errors |-> [i \in 1..HistBins |-> e * i]]
Hists1D == {Hist1D(a, s, e) : a \in 0..MaxContent, s \in 0..1, e \in 0..1}
PedestalFitResults == {PedestalFitResult(v, e) : v \in 0..1, e \in 0..1}

\* Histogram1D.from_existing_hist
from_existing_hist(hist) ==
    [y |-> hist.y, errors_squared |-> [i \in DOMAIN hist.errors |-> hist.errors[i] * hist.errors[i]]]

\* Histogram1D.__sub__: the contents subtract, the squared errors add.
SubtractHistograms(h1, h2) ==
    [y |-> [i \in DOMAIN h1.y |-> h1.y[i] - h2.y[i]],
     errors_squared |-> [i \in DOMAIN h1.y |-> h1.errors_squared[i] + h2.errors_squared[i]]]

\* subtract_background_fit_function_from_signal_dominated; background holds
\* evaluate_background(x) and calculate_background_function_errors(x).
subtract_background_fit_function_from_signal_dominatedMut(signal_dominated, background) ==
    SubtractHistograms(from_existing_hist(background), from_existing_hist(signal_dominated))

subtract_background_fit_function_from_signal_dominated(signal_dominated, background) ==
    LET signal_dominated_hist == from_existing_hist(signal_dominated)
        fit_hist == [y |-> background.y,
                     errors_squared |-> [i \in DOMAIN background.errors |->
                                            background.errors[i] * background.errors[i]]]
    IN  SubtractHistograms(signal_dominated_hist, fit_hist)

\* subtract_delta_eta_correlations on the two delta eta histograms.
SubtractedDeltaEtaMut(correlation_hists_delta_eta, fit_objects_delta_eta) ==
    [attribute_name \in {"near_side", "away_side"} |->
        LET correlation_hist == from_existing_hist(correlation_hists_delta_eta[attribute_name])
            fit_object == fit_objects_delta_eta[attribute_name]
        IN  SubtractHistograms(correlation_hist,
                [y |-> [i \in DOMAIN correlation_hist.y |-> fit_object.value],
                 errors_squared |-> [i \in DOMAIN correlation_hist.y |->
                                        fit_object.error * fit_object.error]])]

SubtractedDeltaEta(correlation_hists_delta_eta, fit_objects_delta_eta) ==
    LET fit_object == fit_objects_delta_eta.near_side
    IN  [attribute_name \in {"near_side", "away_side"} |->
            LET correlation_hist == from_existing_hist(correlation_hists_delta_eta[attribute_name])
                background_hist ==
                    [y |-> [i \in DOMAIN correlation_hist.y |-> fit_object.value],
                     errors_squared |-> [i \in DOMAIN correlation_hist.y |->
                                            fit_object.error * fit_object.error]]
            IN  SubtractHistograms(correlation_hist, background_hist)]

ApplySubtractBackgroundFit ==
    /\ fn = "none"
    /\ \E signal_dominated \in Hists1D : \E background \in Hists1D :
          /\ fn' = "subtract_background_fit_function_from_signal_dominated"
          /\ arg' = <<signal_dominated, background>>
          /\ out' = subtract_background_fit_function_from_signal_dominated(signal_dominated,
                                                                           background)
    /\ UNCHANGED <<pipelineVars, writerVars>>

ApplySubtractDeltaEta ==
    /\ fn = "none"
    /\ \E near_side \in Hists1D : \E away_side \in Hists1D :
       \E near_fit \in PedestalFitResults : \E away_fit \in PedestalFitResults :
          /\ fn' = "subtract_delta_eta_correlations"
          /\ arg' = <<[near_side |-> near_side, away_side |-> away_side],
                      [near_side |-> near_fit, away_side |-> away_fit]>>
          /\ out' = SubtractedDeltaEta([near_side |-> near_side, away_side |-> away_side],
                                       [near_side |-> near_fit, away_side |-> away_fit])
    /\ UNCHANGED <<pipelineVars, writerVars>>

\* A subtracted histogram holds the contents and the errors of hist.
Unchanged(subtracted, hist) ==
    \A i \in 1..HistBins :
        /\ subtracted.y[i] = hist.y[i]
        /\ subtracted.errors_squared[i] = hist.errors[i] * hist.errors[i]
AllZero(hist) == \A i \in 1..HistBins : hist.y[i] = 0 /\ hist.errors[i] = 0

\* C21: subtracting a background whose values and errors are all zero
\* returns the values and errors of the histogram unchanged, in the delta
\* phi fit subtraction and in the delta eta pedestal subtraction.
C21_ZeroBackgroundChangesNothing ==
    /\ (fn = "subtract_background_fit_function_from_signal_dominated" /\ AllZero(arg[2]))
           => Unchanged(out, arg[1])
    /\ (fn = "subtract_delta_eta_correlations"
            /\ arg[2].near_side = [value |-> 0, error |-> 0])
           => /\ Unchanged(out.near_side, arg[1].near_side)
              /\ Unchanged(out.away_side, arg[1].away_side)

C21_Witness ==
    /\ fn = "subtract_background_fit_function_from_signal_dominated"
    /\ AllZero(arg[2])
    /\ ~AllZero(arg[1])
    /\ arg[1].errors[HistBins] > 1
    /\ Unchanged(out, arg[1])

\* C22: the delta eta subtraction takes the near side pedestal, value and
\* error, constant over the bins, from the near side and from the away side
\* histogram; the away side pedestal fit does not enter the result.
C22_NearSidePedestalForBothSides ==
    fn = "subtract_delta_eta_correlations"
        => \A side \in {"near_side", "away_side"} : \A i \in 1..HistBins :
               /\ out[side].y[i] = arg[1][side].y[i] - arg[2].near_side.value
               /\ out[side].errors_squared[i] =
                      arg[1][side].errors[i] * arg[1][side].errors[i]
                          + arg[2].near_side.error * arg[2].near_side.error

C22_Witness ==
    /\ fn = "subtract_delta_eta_correlations"
    /\ arg[2].near_side = [value |-> 1, error |-> 1]
    /\ arg[2].away_side = [value |-> 0, error |-> 0]
    /\ \A i \in 1..HistBins : out.away_side.y[i] = arg[1].away_side.y[i] - 1

(***************************************************************************)
(* Ranges of values cut on an axis of bins.  An axis has nbins bins of     *)
(* equal width from low upwards.  Positions are given in half units, so    *)
(* that a value v is 2v and v + epsilon and v - epsilon are 2v + 1 and     *)
(* 2v - 1: epsilon is smaller than any bin.                                *)
(***************************************************************************)
AxisHalf == 6
Axis(low, width) == [low |-> low, width |-> width, nbins |-> (2 * AxisHalf) \div width]
SymmetricAxes ==
    {Axis(-AxisHalf, width) : width \in {w \in 1..(2 * AxisHalf) : (2 * AxisHalf) % w = 0}}
Above(value) == 2 * value + 1
Below(value) == 2 * value - 1

\* TAxis.FindBin: 0 below the axis, nbins + 1 at and beyond its upper edge.
FindBin(axis, position) ==
    IF position < 2 * axis.low THEN 0
    ELSE IF position >= 2 * (axis.low + axis.nbins * axis.width) THEN axis.nbins + 1
    ELSE ((position - 2 * axis.low) \div (2 * axis.width)) + 1

\* The contents of the bins of an axis, every bin 1 or every bin its number.
AxisContents(axis) ==
    {[e \in 1..axis.nbins |-> IF numbered THEN e ELSE 1] : numbered \in BOOLEAN}
EtaRegions == {r \in [min : 0..AxisHalf, max : 0..AxisHalf] : r.min < r.max}

\* The projection of the bins first..last.
RangeProjection(content, first, last) ==
    SumTerms([e \in DOMAIN content |-> IF e >= first /\ e <= last THEN content[e] ELSE 0],
             1, Len(content))

\* The two projection dependent cuts of a delta phi projector and the
\* projection accumulated over them.
NegativeBranch(axis, region) ==
    [first |-> FindBin(axis, Above(-1 * region.max)), last |-> FindBin(axis, Below(-1 * region.min))]
PositiveBranch(axis, region) ==
    [first |-> FindBin(axis, Above(region.min)), last |-> FindBin(axis, Below(region.max))]
ProjectSymmetricRegion(axis, content, region) ==
    LET negative == NegativeBranch(axis, region)
        positive == PositiveBranch(axis, region)
    IN  RangeProjection(content, negative.first, negative.last)
            + RangeProjection(content, positive.first, positive.last)

ApplyProjectSymmetricRegion ==
    /\ fn = "none"
    /\ \E axis \in SymmetricAxes : \E region \in EtaRegions :
       \E content \in AxisContents(axis) :
          /\ fn' = "project_symmetric_region"
          /\ arg' = <<axis, content, region>>
          /\ out' = ProjectSymmetricRegion(axis, content, region)
    /\ UNCHANGED <<pipelineVars, writerVars>>

\* The bins of the recorded call that hold a value v with min < |v| < max.
SelectedBins ==
    {e \in 1..arg[1].nbins :
        \E position \in (2 * arg[3].min + 1)..(2 * arg[3].max - 1) :
            e \in {FindBin(arg[1], position), FindBin(arg[1], -1 * position)}}

\* C23: the projection accumulated over the negative and the positive
\* branch of a symmetric region is the projection over the bins of the
\* symmetric selection, every selected bin counted once, for every binning.
C23_BranchesCountEveryBinOnce ==
    fn = "project_symmetric_region"
        => out = SumTerms([e \in 1..arg[1].nbins |->
                              IF e \in SelectedBins THEN arg[2][e] ELSE 0],
                          1, arg[1].nbins)

(***************************************************************************)
(* Yield extraction on a histogram over an axis of bins.                   *)
(***************************************************************************)
\* The histograms that are even about zero: flat, or rising to the centre.
EvenHistograms(axis) ==
    {[e \in 1..axis.nbins |-> IF peaked THEN Min(e, axis.nbins + 1 - e) ELSE 1] :
        peaked \in BOOLEAN}

\* Histogram1D.integral: the contents of the bins from that of min_value to
\* that of max_value, both included, times the bin width.
integral(axis, hist, min_value, max_value) ==
    RangeProjection(hist, FindBin(axis, min_value), FindBin(axis, max_value)) * axis.width

\* _extract_yield_from_hist; central_value and yield_limit in half units.
extract_yield_from_histMut(axis, hist, central_value, yield_limit, track_pt) ==
    Fraction(integral(axis, hist, central_value - yield_limit, central_value + yield_limit),
             track_pt.max - track_pt.min)

extract_yield_from_hist(axis, hist, central_value, yield_limit, track_pt) ==
    LET yield_value == integral(axis, hist, central_value - yield_limit + 1,
                                central_value + yield_limit - 1)
        track_pt_bin_width == track_pt.max - track_pt.min
    IN  Fraction(yield_value, track_pt_bin_width)

\* The yield within L of zero and the yield of the range from zero to L.
ApplyExtractYield ==
    /\ fn = "none"
    /\ \E axis \in SymmetricAxes : \E L \in 1..AxisHalf : \E track_pt \in TrackPtBins :
       \E hist \in EvenHistograms(axis) :
          /\ fn' = "_extract_yield_from_hist"
          /\ arg' = <<axis, hist, L, track_pt>>
          /\ out' = <<extract_yield_from_hist(axis, hist, 0, 2 * L, track_pt),
                      extract_yield_from_hist(axis, hist, L, L, track_pt)>>
    /\ UNCHANGED <<pipelineVars, writerVars>>

\* C24 as stated: on a histogram even about zero the yield over [-L, L] is
\* twice the yield over [0, L], for every binning of the axis.
C24_TwoSidedYieldIsTwiceOneSided ==
    fn = "_extract_yield_from_hist"
        => out[1].num * out[2].den = 2 * out[2].num * out[1].den

\* C24 amended: on a histogram even about zero over an axis with a bin edge
\* at zero, the yield over [-L, L] is twice the yield over [0, L].
C24_TwiceOneSidedWithEdgeAtZero ==
    (fn = "_extract_yield_from_hist" /\ (0 - arg[1].low) % arg[1].width = 0)
        => out[1].num * out[2].den = 2 * out[2].num * out[1].den

C24_Witness ==
    /\ fn = "_extract_yield_from_hist"
    /\ (0 - arg[1].low) % arg[1].width = 0
    /\ arg[1].width > 1
    /\ arg[3] % arg[1].width # 0
    /\ out[2].num > 0
    /\ out[1].num * out[2].den = 2 * out[2].num * out[1].den

(***************************************************************************)
(* Cuts on the jet pt and track pt axes and the number of triggers.        *)
(***************************************************************************)
PtAxes == {Axis(0, width) : width \in {w \in 1..(2 * AxisHalf) : (2 * AxisHalf) % w = 0}}
PtRange(lower, upper) == [min |-> lower, max |-> upper]

\* The bins of a range on an axis: from the bin of min + epsilon to the bin
\* of max - epsilon.
AxisCutMut(axis, range) ==
    [first |-> FindBin(axis, Above(range.min)), last |-> FindBin(axis, 2 * range.max)]

AxisCut(axis, range) ==
    [first |-> FindBin(axis, Above(range.min)), last |-> FindBin(axis, Below(range.max))]

\* determine_number_of_triggers on the bins of the trigger spectrum.
number_of_triggers(axis, hist, jet_pt) ==
    LET cut == AxisCut(axis, jet_pt)
    IN  RangeProjection(hist, cut.first, cut.last)

\* The cuts and the numbers of triggers of [a, b], [b, c] and [a, c].
ApplyDetermineNumberOfTriggers ==
    /\ fn = "none"
    /\ \E axis \in PtAxes : \E hist \in AxisContents(axis) :
       \E a \in 0..(2 * AxisHalf) : \E b \in 0..(2 * AxisHalf) : \E c \in 0..(2 * AxisHalf) :
          /\ a < b /\ b < c
          /\ fn' = "determine_number_of_triggers"
          /\ arg' = <<axis, hist, <<PtRange(a, b), PtRange(b, c), PtRange(a, c)>>>>
          /\ out' = [r \in 1..3 |->
                        LET range == <<PtRange(a, b), PtRange(b, c), PtRange(a, c)>>[r]
                        IN  [cut |-> AxisCut(axis, range),
                             number_of_triggers |-> number_of_triggers(axis, hist, range)]]
    /\ UNCHANGED <<pipelineVars, writerVars>>

\* The bounds of the ranges of the recorded call lie on bin edges; the bins
\* of a cut; the bins of the axis that lie inside a range.
OnBinEdges ==
    \A r \in 1..3 : arg[3][r].min % arg[1].width = 0 /\ arg[3][r].max % arg[1].width = 0
CutBins(r) == out[r].cut.first..out[r].cut.last
BinsInside(range) ==
    {e \in 1..arg[1].nbins :
        /\ range.min <= arg[1].low + (e - 1) * arg[1].width
        /\ arg[1].low + e * arg[1].width <= range.max}

\* C25: for ranges whose bounds lie on bin edges the cut selects the bins
\* inside the range, adjacent ranges [a, b] and [b, c] select disjoint bins,
\* and the triggers of [a, c] are those of [a, b] plus those of [b, c].
C25_CutSelectsBinsInside ==
    (fn = "determine_number_of_triggers" /\ OnBinEdges)
        => /\ \A r \in 1..3 : CutBins(r) = BinsInside(arg[3][r])
           /\ CutBins(1) \cap CutBins(2) = {}
           /\ out[3].number_of_triggers = out[1].number_of_triggers + out[2].number_of_triggers

C25_Witness ==
    /\ fn = "determine_number_of_triggers"
    /\ OnBinEdges
    /\ arg[1].width > 1
    /\ Cardinality(CutBins(1)) > 1
    /\ CutBins(2) # {}
    /\ out[3].number_of_triggers = out[1].number_of_triggers + out[2].number_of_triggers

(***************************************************************************)
(* EqualityMixin (generic_class).  An object has a type and attributes;    *)
(* the mixin compares the attributes of objects of the same type and       *)
(* leaves every other comparison to Python, which compares identities.     *)
(***************************************************************************)
AttributeNames == {"aNumber", "aString", "aList", "aDict"}
ObjectTypes == {"equalityMixinTestClass", "testTuple"}
Objects == [type : ObjectTypes, attributes : [AttributeNames -> 0..1]]

\* EqualityMixin.__eq__ and __ne__ on two distinct objects; the result of
\* __eq__ is True, False or NotImplemented, and Python takes an == that no
\* side implements as False.
Bool(b) == IF b THEN "True" ELSE "False"
EqualityMixinEqMut(self, other) ==
    IF other.type = self.type
    THEN Bool(self.attributes["aNumber"] = other.attributes["aNumber"])
    ELSE "NotImplemented"

EqualityMixinEq(self, other) ==
    IF other.type = self.type
    THEN Bool(self.attributes = other.attributes)
    ELSE "NotImplemented"
Equal(self, other) == EqualityMixinEq(self, other) = "True"
NotEqual(self, other) == ~Equal(self, other)

ApplyEquality ==
    /\ fn = "none"
    /\ \E self \in Objects : \E other \in Objects :
          /\ self.type = "equalityMixinTestClass"
          /\ fn' = "EqualityMixin"
          /\ arg' = <<self, other>>
          /\ out' = [eq |-> Equal(self, other), ne |-> NotEqual(self, other)]
    /\ UNCHANGED <<pipelineVars, writerVars>>

C27_InclusiveExcludesOtherOrientations ==
    fn = "DefineFits"
        => \A type \in CorrelationTypes : \A epAngle \in Orientations \ {"inclusive"} :
               ~(<<"inclusive", type>> \in DOMAIN out /\ <<epAngle, type>> \in DOMAIN out)

\* C28: when the 1D projection of a bin has computed (the bin carries
\* fit1DCorrelations), the fit stages that follow compute for that bin
\* whatever fit_correlations says: the pedestal fit of a bin holding its
\* delta eta hists completes with the fits of these hists and writes them,
\* and the reaction plane fit of a group holding its inputs never fails for a
\* missing stored result and, when it completes, stores and writes the joint
\* fit of the inputs.
C28_Compute1DForcesFit ==
    [][/\ (InStage("_fit_delta_eta_correlations") /\ an[pos].fit1DCorrelations
             /\ an[pos].hists_1d.deta_near_side # None /\ an[pos].hists_1d.deta_away_side # None)
           => /\ err' = "none"
              /\ an'[pos].fit_objects_delta_eta.near_side = FitPedestal(an[pos].hists_1d.deta_near_side)
              /\ an'[pos].fit_objects_delta_eta.away_side = FitPedestal(an[pos].hists_1d.deta_away_side)
              /\ "fit_objects_delta_eta" \in Keys(yamlFile'[pos])
              /\ yamlFile'[pos].recs["fit_objects_delta_eta"] = an'[pos].fit_objects_delta_eta
       /\ (InStage("_reaction_plane_fit")
             /\ \A b \in BinsOf(pos) : /\ an[b].fit1DCorrelations /\ an[b].ran_projections
                                       /\ FitInput(an, b) # None)
           => /\ err' \in {"none", "RuntimeError"}
              /\ err' = "none"
                   => /\ rpfFile'[pos].exists
                      /\ rpfFile'[pos].recs["fit_result"] = JointFit(an, pos)
                      /\ \A b \in BinsOf(pos) :
                             an'[b].fit_object = FitComponent(JointFit(an, pos), b)]_vars

(***************************************************************************)
(* Iteration over the observables of a Correlations object.                *)
(***************************************************************************)
\* The keys of the module-level histogram information, in the order in which
\* __iter__ merges them: 2D correlations, number of triggers, 1D correlations.
HistAttributes ==
    <<"correlation_hists_2d.raw", "correlation_hists_2d.mixed_event", "correlation_hists_2d.signal",
      "number_of_triggers_observable",
      "correlation_hists_delta_phi.signal_dominated", "correlation_hists_delta_phi.background_dominated",
      "correlation_hists_delta_phi_subtracted.signal_dominated",
      "correlation_hists_delta_phi_subtracted.background_dominated",
      "correlation_hists_delta_eta.near_side", "correlation_hists_delta_eta.away_side",
      "correlation_hists_delta_eta_subtracted.near_side", "correlation_hists_delta_eta_subtracted.away_side">>

\* An observable: the attribute it belongs to, the analysis identifier that
\* enters its name, and its hist.
Observable(attribute_name, analysis_identifier, hist) ==
    [attribute_name |-> attribute_name, analysis_identifier |-> analysis_identifier, hist |-> hist]

\* _2d_correlations_histogram_information, _number_of_triggers_histogram_information
\* and _1d_correlations_histogram_information: templates without identifier and hist.
histogram_information ==
    [i \in DOMAIN HistAttributes |-> Observable(HistAttributes[i], None, None)]

\* Correlations.__iter__: the merged module-level dictionaries are iterated,
\* whatever the object holds.
iter(a) == histogram_information

\* The observables of an analysis object of bin b: the copies made by
\* dataclasses.replace in __init__ with the identifier of the bin (the number
\* of triggers observable has none), holding what the stages have stored.
OwnObservables(a, b) ==
    LET stored == <<a.hists_2d.raw, a.hists_2d.mixed_event, a.hists_2d.signal,
                    a.number_of_triggers_hist,
                    a.hists_1d.dphi_signal_dominated, a.hists_1d.dphi_background_dominated,
                    a.dphi_subtracted, None,
                    a.hists_1d.deta_near_side, a.hists_1d.deta_away_side,
                    a.deta_subtracted.near_side, a.deta_subtracted.away_side>>
    IN [i \in DOMAIN HistAttributes |->
           Observable(HistAttributes[i],
                      IF HistAttributes[i] = "number_of_triggers_observable" THEN None ELSE b,
                      stored[i])]

\* C29: in every state, iterating over the analysis object of a bin yields
\* the observables of that object (with the identifier of the bin and the
\* hists stored in it so far), and every module-level template still has no
\* hist.
C29_IterationYieldsOwnObservables ==
    /\ \A b \in Bins : iter(an[b]) = OwnObservables(an[b], b)
    /\ \A i \in DOMAIN histogram_information : histogram_information[i].hist = None

(***************************************************************************)
(* The width extractors of a bin.  Angles are in units of pi / 2, so that  *)
(* a configured value v stands for v / 2; eta is in axis units.            *)
(***************************************************************************)
MaxPhiValue == 2
pi == 2

\* The values of deltaPhiRanges in the task configuration.
PhiValues == {r \in [min : -MaxPhiValue..MaxPhiValue, max : -MaxPhiValue..MaxPhiValue] : r.min < r.max}

\* self.near_side_phi_region: the configured values times pi.
near_side_phi_region(near_side_values) ==
    [min |-> (pi * near_side_values.min) \div 2, max |-> (pi * near_side_values.max) \div 2]

\* self.away_side_phi_region: the configured values times pi, shifted by pi.
away_side_phi_region(away_side_values) ==
    [min |-> pi + (pi * away_side_values.min) \div 2, max |-> pi + (pi * away_side_values.max) \div 2]

\* fitting.FitPedestalWithExtendedGaussian(fit_range, user_arguments)
FitPedestalWithExtendedGaussian(fit_range, mean) ==
    [fit_range |-> fit_range, mean |-> mean]

\* extracted.ExtractedWidth(properties, fit_obj, fit_args)
ExtractedWidth(fit_range, fit_obj) ==
    [properties |-> [name |-> "", fit_range |-> fit_range], fit_obj |-> fit_obj]

\* self.widths_delta_phi and self.widths_delta_eta as Correlations.__init__
\* builds them from the regions of the bin.
WidthExtractors(near_side_values, away_side_values, signal_dominated_eta_region) ==
    LET near == near_side_phi_region(near_side_values)
        away == away_side_phi_region(away_side_values)
    IN [widths_delta_phi |->
           [near_side |-> ExtractedWidth(near, FitPedestalWithExtendedGaussian(near, 0)),
            away_side |-> ExtractedWidth(away, FitPedestalWithExtendedGaussian(near, pi))],
        widths_delta_eta |->
           [near_side |-> ExtractedWidth(signal_dominated_eta_region,
                                         FitPedestalWithExtendedGaussian(signal_dominated_eta_region, 0)),
            away_side |-> ExtractedWidth(signal_dominated_eta_region,
                                         FitPedestalWithExtendedGaussian(near, 0))]]

\* The range over which _fit_and_extract_delta_phi_widths and
\* _fit_and_extract_delta_eta_widths fit each width: that of the fit object.
FittedRanges(widths) ==
    [axis \in DOMAIN widths |->
        [side \in DOMAIN widths[axis] |-> widths[axis][side].fit_obj.fit_range]]

ApplyWidthExtractors ==
    /\ fn = "none"
    /\ \E near_side_values \in PhiValues : \E away_side_values \in PhiValues :
       \E signal_dominated \in EtaRegions :
          /\ fn' = "widths"
          /\ arg' = <<near_side_values, away_side_values, signal_dominated>>
          /\ out' = [widths |-> WidthExtractors(near_side_values, away_side_values, signal_dominated),
                     fitted |-> FittedRanges(WidthExtractors(near_side_values, away_side_values,
                                                             signal_dominated))]
    /\ UNCHANGED <<pipelineVars, writerVars>>

\* C30: each of the four width extractors of a bin (delta phi and delta eta,
\* near side and away side) is fitted over the fit range recorded in its
\* properties: the fit range of its fit object is that range.
C30_FitRangeIsRecordedRange ==
    fn = "widths"
        => \A axis \in {"widths_delta_phi", "widths_delta_eta"} : \A side \in {"near_side", "away_side"} :
               /\ out.widths[axis][side].fit_obj.fit_range = out.widths[axis][side].properties.fit_range
               /\ out.fitted[axis][side] = out.widths[axis][side].properties.fit_range

NextFunctions ==
    \/ ApplyIdentifier
    \/ ApplyMeasureMixedEventNormalization
    \/ ApplyRescaledNormalization
    \/ ApplyNormalizeMixedEvent
    \/ ApplyDefineFits
    \/ ApplyCalculateRPFError
    \/ ApplySubtractBackgroundFit
    \/ ApplySubtractDeltaEta
    \/ ApplyProjectSymmetricRegion
    \/ ApplyExtractYield
    \/ ApplyDetermineNumberOfTriggers
    \/ ApplyEquality
    \/ ApplyWidthExtractors

SpecFunctions == InitFunctions /\ [][NextFunctions]_vars

====
